---- MODULE Spec2Model ----
(***************************************************************************)
(* RTCPeerConnection of aiortc-lite (src/src/aiortc/rtcpeerconnection.py): *)
(* the signalling state machine, the four description slots, the SCTP      *)
(* transport with its DTLS and ICE transports, the aggregate states, the   *)
(* connect driver and close().                                             *)
(*                                                                         *)
(* The asyncio event loop is modelled by interleaving: an action is the    *)
(* code a coroutine runs between two suspension points.  An await on an    *)
(* empty asyncio.gather() does not suspend, an await on a transport        *)
(* coroutine (gather, start, stop, addRemoteCandidate) does.               *)
(*                                                                         *)
(* RTCIceGatherer, RTCIceTransport, RTCDtlsTransport and RTCSctpTransport  *)
(* are not part of the sources at hand; their behaviour is taken from the  *)
(* specification (suspension points of section 5, state sets of 4.5).      *)
(* The SDP text form (sdp.SessionDescription.parse / str) is not modelled: *)
(* a description is the parsed record.  SCTP port, capabilities and the    *)
(* legacy/modern profile flag are left out; no state below depends on them.*)
(***************************************************************************)
EXTENDS Integers, Sequences, FiniteSets, TLC

\* ------------------------------------------------------------------ bounds

\* API calls other than close() the application issues on the connection.
MaxCalls == 2
\* close() calls issued by the application (the implicit close task is extra).
MaxClose == 2
\* API calls other than close() of the application of SessionSpec.
MaxSessionCalls == 3
MaxExchangeCalls == 4
\* API calls other than close() of the application of NoMediaSpec.
MaxNoMediaCalls == 4

\* ------------------------------------------------------------- value sets

NoMid == -1          \* Python None for a MID, an m-line index
NoTransport == 0     \* Python None for sctp.transport
\* __createDtlsTransport is only called by __createSctpTransport, which is
\* only called while self.__sctp is None: one DTLS/ICE transport pair at most.
Transports == {1}

SignalingStates ==
  {"stable", "have-local-offer", "have-remote-offer",
   "have-local-pranswer", "have-remote-pranswer", "closed"}
SdpTypes == {"offer", "answer", "pranswer", "rollback"}
DtlsRoles == {"auto", "client", "server"}

\* A parsed media section (sdp.MediaDescription), with the fields the peer
\* connection reads: ufrag / pwd say whether the ICE credential is non-empty.
Section(kind, mid, ufrag, pwd, role) ==
  [kind |-> kind, mid |-> mid, ufrag |-> ufrag, pwd |-> pwd, role |-> role,
   iceLite |-> FALSE, cands |-> <<>>, complete |-> FALSE]

\* A parsed session description; bundle is the item list of its BUNDLE group
\* (empty: no group).  NoDesc is Python None.
NoDesc == [type |-> "none", media |-> <<>>, bundle |-> <<>>]
Desc(type, media, bundle) == [type |-> type, media |-> media, bundle |-> bundle]

MidsOf(media) == [i \in 1..Len(media) |-> media[i].mid]

\* The descriptions the remote peer and the application hand in.
App(mid, role) == <<Section("application", mid, TRUE, TRUE, role)>>
AudioApp(role) == <<Section("audio", 0, TRUE, TRUE, role),
                    Section("application", 1, TRUE, TRUE, role)>>
In(type, media) == Desc(type, media, MidsOf(media))

RemoteInputs ==
  {In("offer", <<>>), In("offer", App(0, "auto")),
   In("offer", AudioApp("auto")),
   In("offer", <<Section("application", 0, FALSE, TRUE, "auto")>>),
   In("answer", <<>>), In("answer", App(0, "client")), In("answer", App(0, "server")),
   In("answer", App(0, "auto")), In("answer", App(1, "client")),
   In("answer", <<Section("application", 0, TRUE, FALSE, "client")>>),
   In("pranswer", <<>>), In("pranswer", App(0, "client")),
   In("rollback", <<>>)}

LocalInputs ==
  {NoDesc,
   In("offer", <<>>), In("offer", App(0, "auto")),
   In("answer", <<>>), In("answer", App(0, "client")), In("answer", App(0, "auto")),
   In("pranswer", <<>>), In("rollback", <<>>)}

\* ------------------------------------------------------- pure functions

\* "x or y" on two optional descriptions (__localDescription, __remoteDescription)
ActiveDescription(pending, current) ==
  IF pending # NoDesc THEN pending ELSE current

KindMid(media) == [i \in 1..Len(media) |-> <<media[i].kind, media[i].mid>>]

\* The signalling-state check at the head of __validate_description: only the
\* types offer and answer have a branch.
SignalingAllows(type, is_local, state) ==
  IF is_local
  THEN CASE type = "offer" -> state \in {"stable", "have-local-offer"}
         [] type = "answer" -> state \in {"have-remote-offer", "have-local-pranswer"}
         [] OTHER -> TRUE
  ELSE CASE type = "offer" -> state \in {"stable", "have-remote-offer"}
         [] type = "answer" -> state \in {"have-local-offer", "have-remote-pranswer"}
         [] OTHER -> TRUE

\* __validate_description without the ICE credential check.
IceCredentialsMissing_Unchecked(m) == FALSE
IceCredentialsMissing(m) == ~m.ufrag \/ ~m.pwd
DtlsRoleRejected(type, m) ==
  type \in {"answer", "pranswer"} /\ m.role \notin {"client", "server"}

\* __validate_description: "ok", or the exception it raises.  The media loop
\* raises at the first section that fails, the ICE check before the DTLS check.
ValidateDescription(d, is_local, state, local, remote) ==
  LET bad == {i \in 1..Len(d.media) :
                IceCredentialsMissing(d.media[i]) \/ DtlsRoleRejected(d.type, d.media[i])}
      first == CHOOSE i \in bad : \A j \in bad : i <= j
      offer == IF is_local THEN remote ELSE local
  IN  IF ~SignalingAllows(d.type, is_local, state) THEN "InvalidStateError"
      ELSE IF bad # {}
        THEN IF IceCredentialsMissing(d.media[first])
             THEN "ValueError: ICE username fragment or password is missing"
             ELSE "ValueError: DTLS setup attribute must be 'active' or 'passive' for an answer"
      ELSE IF d.type \in {"answer", "pranswer"}
        THEN IF offer = NoDesc THEN "AttributeError"
             ELSE IF KindMid(d.media) # KindMid(offer.media)
                  THEN "ValueError: Media sections in answer do not match offer"
                  ELSE "ok"
      ELSE "ok"

\* allocate_mid returning the first MID whatever mids holds.
allocate_mid_First(mids) == 0

\* allocate_mid: the lowest non-negative integer not in mids.
allocate_mid(mids) ==
  CHOOSE i \in 0..Cardinality(mids) :
    i \notin mids /\ \A j \in 0..(i - 1) : j \in mids

\* The state sets the aggregators read: set(map(lambda x: x.state, ...)).
StatesOf(ts, st) == {st[t] : t \in ts}

\* __updateIceGatheringState, __updateIceConnectionState and
\* __updateConnectionState: the state each computes.
\* __updateIceGatheringState asking whether no gatherer is left to complete.
ComputeIceGatheringState_AllOf(states) ==
  IF states \subseteq {"completed"} THEN "complete"
  ELSE IF "gathering" \in states THEN "gathering"
  ELSE "new"

ComputeIceGatheringState(states) ==
  IF states = {"completed"} THEN "complete"
  ELSE IF "gathering" \in states THEN "gathering"
  ELSE "new"

\* __updateIceConnectionState testing the closed latch after the failed state.
ComputeIceConnectionState_FailedFirst(closed, states) ==
  IF "failed" \in states THEN "failed"
  ELSE IF closed THEN "closed"
  ELSE IF states = {"completed"} THEN "completed"
  ELSE IF "checking" \in states THEN "checking"
  ELSE "new"

ComputeIceConnectionState(closed, states) ==
  IF closed THEN "closed"
  ELSE IF "failed" \in states THEN "failed"
  ELSE IF states = {"completed"} THEN "completed"
  ELSE IF "checking" \in states THEN "checking"
  ELSE "new"

\* __updateConnectionState without the branch for a DTLS transport still new.
ComputeConnectionState_NoNewBranch(closed, iceStates, dtlsStates) ==
  IF closed THEN "closed"
  ELSE IF "failed" \in iceStates \/ "failed" \in dtlsStates THEN "failed"
  ELSE IF iceStates \ {"new", "closed"} = {} /\ dtlsStates \ {"new", "closed"} = {}
    THEN "new"
  ELSE IF "checking" \in iceStates \/ "connecting" \in dtlsStates THEN "connecting"
  ELSE "connected"

ComputeConnectionState(closed, iceStates, dtlsStates) ==
  IF closed THEN "closed"
  ELSE IF "failed" \in iceStates \/ "failed" \in dtlsStates THEN "failed"
  ELSE IF iceStates \ {"new", "closed"} = {} /\ dtlsStates \ {"new", "closed"} = {}
    THEN "new"
  ELSE IF "checking" \in iceStates \/ "connecting" \in dtlsStates THEN "connecting"
  ELSE IF "new" \in dtlsStates THEN "connecting"
  ELSE "connected"

\* The shutdown test without "not self.__isClosed".
SchedulesClose_WhenClosed(closed, task, dtlsStates) ==
  task = "none" /\ dtlsStates = {"closed"}

\* if all DTLS connections are closed, initiate a shutdown
SchedulesClose(closed, task, dtlsStates) ==
  ~closed /\ task = "none" /\ dtlsStates = {"closed"}

Event(name, state) == <<name, state>>

\* __updateIceGatheringState emitting without comparing with the stored state.
UpdateIceGatheringState_AlwaysEmits(a, gStates) ==
  LET s == ComputeIceGatheringState(gStates)
  IN  [a EXCEPT !.g = s, !.ev = Append(@, Event("icegatheringstatechange", s))]

\* The aggregate part of the state, threaded through the handlers one action
\* runs: g, i, c are the three aggregate states, task is __closeTask, ev the
\* events emitted so far in the action.
UpdateIceGatheringState(a, gStates) ==
  LET s == ComputeIceGatheringState(gStates)
  IN  IF s # a.g
      THEN [a EXCEPT !.g = s, !.ev = Append(@, Event("icegatheringstatechange", s))]
      ELSE a

UpdateIceConnectionState(a, closed, iStates) ==
  LET s == ComputeIceConnectionState(closed, iStates)
  IN  IF s # a.i
      THEN [a EXCEPT !.i = s, !.ev = Append(@, Event("iceconnectionstatechange", s))]
      ELSE a

\* __updateConnectionState emitting without comparing with the stored state.
UpdateConnectionState_AlwaysEmits(a, closed, iStates, dStates) ==
  LET s == ComputeConnectionState(closed, iStates, dStates)
      b == [a EXCEPT !.c = s, !.ev = Append(@, Event("connectionstatechange", s))]
  IN  IF SchedulesClose(closed, b.task, dStates)
      THEN [b EXCEPT !.task = "scheduled"]
      ELSE b

UpdateConnectionState(a, closed, iStates, dStates) ==
  LET s == ComputeConnectionState(closed, iStates, dStates)
      b == IF s # a.c
           THEN [a EXCEPT !.c = s, !.ev = Append(@, Event("connectionstatechange", s))]
           ELSE a
  IN  IF SchedulesClose(closed, b.task, dStates)
      THEN [b EXCEPT !.task = "scheduled"]
      ELSE b

\* __setSignalingState: the assignment and the emit.
SetSignalingState(a, state) ==
  [a EXCEPT !.sig = state, !.ev = Append(@, Event("signalingstatechange", state))]

\* ------------------------------------------------------------------ state

VARIABLES
  signalingState,            \* __signalingState
  isClosed,                  \* __isClosed: "none" (None), "pending", "done"
  closeTask,                 \* __closeTask: "none", "scheduled", "started"
  connectionState, iceConnectionState, iceGatheringState,
  pendingLocalDescription, currentLocalDescription,
  pendingRemoteDescription, currentRemoteDescription,
  seenMids,                  \* __seenMids
  sctp,                      \* __sctp: [exists, mid, bundled, transport]
  sctp_mline_index,          \* __sctp_mline_index
  dtlsTransports, iceTransports,
  remoteIce,                 \* self.__sctp in self.__remoteIce (and __remoteDtls)
  tr,                        \* per transport: gatherer, ICE and DTLS state, roles
  listeners,                 \* the application's listeners are registered
  emitted,                   \* events emitted by the last action, in order
  delivered,                 \* those of them a listener received
  pc_states,                 \* the events a tracking application has recorded
  ret,                       \* the call that returned or raised in the last action
  setLocal, setRemote, addCand,  \* the suspended call of each operation
  closer,                    \* the close() call that runs the shutdown
  closeWaiters,              \* close() calls awaiting __isClosed
  connect,                   \* __connect tasks: scheduled / awaiting a start
  calls, closeCalls,         \* calls issued so far
  budget                     \* calls the application issues at most

aggVars == <<signalingState, iceGatheringState, iceConnectionState,
             connectionState, closeTask, emitted, delivered, pc_states>>
slotVars == <<pendingLocalDescription, currentLocalDescription,
              pendingRemoteDescription, currentRemoteDescription>>
sctpVars == <<seenMids, sctp, sctp_mline_index, remoteIce>>
setVars == <<dtlsTransports, iceTransports>>
procVars == <<setLocal, setRemote, addCand, closer, closeWaiters, connect>>

vars == <<aggVars, slotVars, sctpVars, setVars, procVars, isClosed, tr,
          listeners, ret, calls, closeCalls, budget>>

\* A candidate: sdpMid and sdpMLineIndex, each possibly None.  A candidate the
\* local gatherer found carries neither.
Candidate(mid, idx) == [null |-> FALSE, sdpMid |-> mid, sdpMLineIndex |-> idx]
NullCandidate == [null |-> TRUE, sdpMid |-> NoMid, sdpMLineIndex |-> NoMid]

\* What the application sees of a call: the operation, "ok" or the exception,
\* the description createOffer / createAnswer returned; with it the
\* description the call was given (for an implicit setLocalDescription the one
\* it created), and signalingState and whether close() had been called when
\* the call was made.
NoRet == [op |-> "none", res |-> "none", desc |-> NoDesc, arg |-> NoDesc,
          cand |-> Candidate(NoMid, NoMid), from |-> "none", closed |-> FALSE]
Ret(op, res) == [op |-> op, res |-> res, desc |-> NoDesc, arg |-> NoDesc,
                 cand |-> Candidate(NoMid, NoMid),
                 from |-> signalingState, closed |-> isClosed # "none"]
\* The return of addIceCandidate(c).
RetCand(res, c) == [Ret("addIceCandidate", res) EXCEPT !.cand = c]
RetDesc(op, d) == [Ret(op, "ok") EXCEPT !.desc = d]
\* A call of setLocalDescription or setRemoteDescription: its description and
\* the state it was made in.
Call(d) == [desc |-> d, from |-> signalingState, closed |-> isClosed # "none"]
RetSet(op, res, k) == [op |-> op, res |-> res, desc |-> NoDesc,
                       arg |-> k.desc, cand |-> Candidate(NoMid, NoMid),
                       from |-> k.from, closed |-> k.closed]

ClosedError == "InvalidStateError: RTCPeerConnection is closed"

Idle == [pc |-> "idle"]

\* RTCIceGatherer, RTCIceTransport and RTCDtlsTransport as constructed by
\* __createDtlsTransport.  handed lists the arguments of the calls of
\* RTCIceTransport.addRemoteCandidate made so far, NullCandidate for None.
NewTransport ==
  [gatherer |-> "new", ice |-> "new", dtls |-> "new", role |-> "auto",
   roleSet |-> FALSE, controlling |-> FALSE, localCands |-> FALSE,
   iceStarted |-> FALSE, sctpStarted |-> FALSE, handed |-> <<>>]

\* The calls of addRemoteCandidate on the ICE transport of x made in the
\* reverse of the order of cs.
HandOver_Reversed(t, x, cs) ==
  [t EXCEPT ![x].handed = @ \o [i \in 1..Len(cs) |-> cs[Len(cs) + 1 - i]]]

\* RTCIceTransport.addRemoteCandidate is called on the ICE transport of x
\* with each element of cs, in order.
HandOver(t, x, cs) == [t EXCEPT ![x].handed = @ \o cs]

\* The state after construction, for an application of peer p that issues at
\* most b calls; a peer other than "none" has called track_states.
InitPeer(b, p) ==
  /\ budget = b
  /\ pc_states = [peer |-> p, ev |-> <<>>]
  /\ signalingState = "stable"
  /\ isClosed = "none"
  /\ closeTask = "none"
  /\ connectionState = "new"
  /\ iceConnectionState = "new"
  /\ iceGatheringState = "new"
  /\ pendingLocalDescription = NoDesc
  /\ currentLocalDescription = NoDesc
  /\ pendingRemoteDescription = NoDesc
  /\ currentRemoteDescription = NoDesc
  /\ seenMids = {}
  /\ sctp = [exists |-> FALSE, mid |-> NoMid, bundled |-> FALSE,
             transport |-> NoTransport]
  /\ sctp_mline_index = NoMid
  /\ dtlsTransports = {}
  /\ iceTransports = {}
  /\ remoteIce = FALSE
  /\ tr = [t \in Transports |-> NewTransport]
  /\ listeners = TRUE
  /\ emitted = <<>>
  /\ delivered = <<>>
  /\ ret = NoRet
  /\ setLocal = Idle
  /\ setRemote = Idle
  /\ addCand = Idle
  /\ closer = "none"
  /\ closeWaiters = 0
  /\ connect = [scheduled |-> 0, ice |-> 0, dtls |-> 0, sctp |-> 0]
  /\ calls = 0
  /\ closeCalls = 0

InitWith(b) == InitPeer(b, "none")

\* ---------------------------------------------------- aggregate handlers

Closed == isClosed # "none"

Agg == [sig |-> signalingState, g |-> iceGatheringState,
        i |-> iceConnectionState, c |-> connectionState,
        task |-> closeTask, ev |-> <<>>]

\* Writes back what the handlers of one action computed; the events reach the
\* listeners registered when they were emitted.
Commit(a) ==
  /\ signalingState' = a.sig
  /\ iceGatheringState' = a.g
  /\ iceConnectionState' = a.i
  /\ connectionState' = a.c
  /\ closeTask' = a.task
  /\ emitted' = a.ev
  /\ delivered' = IF listeners THEN a.ev ELSE <<>>
  /\ pc_states' = IF listeners /\ pc_states.peer # "none"
                  THEN [pc_states EXCEPT !.ev = @ \o a.ev]
                  ELSE pc_states

GathererStates(its, t) == {t[x].gatherer : x \in its}
IceStates(its, t) == {t[x].ice : x \in its}
DtlsStates(dts, t) == {t[x].dtls : x \in dts}

\* "update states": the three recomputations in the order the code runs them.
UpdateStates(a, closed, its, dts, t) ==
  UpdateConnectionState(
    UpdateIceConnectionState(
      UpdateIceGatheringState(a, GathererStates(its, t)),
      closed, IceStates(its, t)),
    closed, IceStates(its, t), DtlsStates(dts, t))

\* The listeners __createDtlsTransport registers on the transports' statechange.
OnGathererChange(a, its, t) == UpdateIceGatheringState(a, GathererStates(its, t))
OnIceChange(a, closed, its, dts, t) ==
  UpdateConnectionState(
    UpdateIceConnectionState(a, closed, IceStates(its, t)),
    closed, IceStates(its, t), DtlsStates(dts, t))
OnDtlsChange(a, closed, its, dts, t) ==
  UpdateConnectionState(a, closed, IceStates(its, t), DtlsStates(dts, t))

\* RTCDtlsTransport.stop() and RTCIceTransport.stop(): the transport ends
\* closed; statechange fires when that is a change.
DtlsStopped(t, x) == [t EXCEPT ![x].dtls = "closed"]
IceStopped(t, x) == [t EXCEPT ![x].ice = "closed"]

AfterDtlsStop(a, closed, its, dts, t, x) ==
  IF t[x].dtls = "closed" THEN a
  ELSE OnDtlsChange(a, closed, its, dts, DtlsStopped(t, x))
AfterIceStop(a, closed, its, dts, t, x) ==
  IF t[x].ice = "closed" THEN a
  ELSE OnIceChange(a, closed, its, dts, IceStopped(t, x))

\* ------------------------------------------------------ createDataChannel

\* __createSctpTransport with __createDtlsTransport: registers the new
\* transports, recomputes the aggregate states, creates the SCTP transport.
CreatedSctp == [exists |-> TRUE, mid |-> NoMid, bundled |-> FALSE, transport |-> 1]

\* createDataChannel creating the SCTP transport before it checks its
\* arguments.
CreateDataChannel_CreatesFirst(both) ==
  /\ calls < budget
  /\ calls' = calls + 1
  /\ ret' = Ret("createDataChannel",
                IF both
                THEN "ValueError: Cannot specify both maxPacketLifeTime and maxRetransmits"
                ELSE "ok")
  /\ IF sctp.exists
     THEN /\ Commit(Agg)
          /\ UNCHANGED <<sctpVars, setVars>>
     ELSE /\ iceTransports' = iceTransports \cup {1}
          /\ dtlsTransports' = dtlsTransports \cup {1}
          /\ Commit(UpdateStates(Agg, Closed, iceTransports \cup {1},
                                 dtlsTransports \cup {1}, tr))
          /\ sctp' = CreatedSctp
          /\ UNCHANGED <<seenMids, sctp_mline_index, remoteIce>>
  /\ UNCHANGED <<slotVars, procVars, isClosed, tr, listeners, closeCalls, budget>>

CreateDataChannel(both) ==
  /\ calls < budget
  /\ calls' = calls + 1
  /\ IF both
     THEN /\ ret' = Ret("createDataChannel",
                        "ValueError: Cannot specify both maxPacketLifeTime and maxRetransmits")
          /\ Commit(Agg)
          /\ UNCHANGED <<sctpVars, setVars>>
     ELSE /\ ret' = Ret("createDataChannel", "ok")
          /\ IF sctp.exists
             THEN /\ Commit(Agg)
                  /\ UNCHANGED <<sctpVars, setVars>>
             ELSE /\ iceTransports' = iceTransports \cup {1}
                  /\ dtlsTransports' = dtlsTransports \cup {1}
                  /\ Commit(UpdateStates(Agg, Closed, iceTransports \cup {1},
                                         dtlsTransports \cup {1}, tr))
                  /\ sctp' = CreatedSctp
                  /\ UNCHANGED <<seenMids, sctp_mline_index, remoteIce>>
  /\ UNCHANGED <<slotVars, procVars, isClosed, tr, listeners, closeCalls, budget>>

\* ------------------------------------------------------------------ close

\* close() resolving the latch without "update states".
CloseFinish_NoUpdate(a, t) ==
  /\ Commit(a)
  /\ listeners' = FALSE
  /\ isClosed' = "done"
  /\ closer' = "done"
  /\ ret' = Ret("close", "ok")

\* The shutdown after the transports were stopped: update states, remove all
\* listeners, resolve __isClosed.
CloseFinish(a, t) ==
  /\ Commit(UpdateStates(a, TRUE, iceTransports, dtlsTransports, t))
  /\ listeners' = FALSE
  /\ isClosed' = "done"
  /\ closer' = "done"
  /\ ret' = Ret("close", "ok")

\* close() without the check of the __isClosed latch at its head.
CloseBody_NoLatch(task) ==
  LET a == SetSignalingState([Agg EXCEPT !.task = task], "closed")
  IN  /\ UNCHANGED closeWaiters
      /\ IF ~sctp.exists
         THEN CloseFinish(a, tr)
         ELSE /\ Commit(a)
              /\ isClosed' = "pending"
              /\ UNCHANGED listeners
              /\ IF sctp.transport = NoTransport
                 THEN closer' = "raised" /\ ret' = Ret("close", "AttributeError")
                 ELSE closer' = "stopDtls" /\ ret' = NoRet

\* The body of close(), run by an application call or by the task
\* __updateConnectionState scheduled; task is __closeTask as the caller
\* leaves it.
CloseBody(task) ==
  LET a0 == [Agg EXCEPT !.task = task]
  IN
  IF isClosed # "none"
  THEN \* await self.__isClosed; return
       /\ IF isClosed = "done"
          THEN ret' = Ret("close", "ok") /\ UNCHANGED closeWaiters
          ELSE ret' = NoRet /\ closeWaiters' = closeWaiters + 1
       /\ Commit(a0)
       /\ UNCHANGED <<isClosed, closer, listeners>>
  ELSE LET a == SetSignalingState(a0, "closed")
       IN  /\ UNCHANGED closeWaiters
           /\ IF ~sctp.exists
              THEN CloseFinish(a, tr)
              ELSE /\ Commit(a)
                   /\ isClosed' = "pending"
                   /\ UNCHANGED listeners
                   /\ IF sctp.transport = NoTransport
                      THEN closer' = "raised" /\ ret' = Ret("close", "AttributeError")
                      ELSE closer' = "stopDtls" /\ ret' = NoRet

Close ==
  /\ closeCalls < MaxClose
  /\ closeCalls' = closeCalls + 1
  /\ UNCHANGED calls
  /\ CloseBody(closeTask)
  /\ UNCHANGED <<slotVars, sctpVars, setVars, setLocal, setRemote, addCand,
                 connect, tr, budget>>

\* The task scheduled by asyncio.ensure_future(self.close()) starts to run.
ImplicitClose ==
  /\ closeTask = "scheduled"
  /\ CloseBody("started")
  /\ UNCHANGED <<slotVars, sctpVars, setVars, setLocal, setRemote, addCand,
                 connect, tr, calls, closeCalls, budget>>

\* await self.__sctp.transport.stop() returns; close() goes on to
\* self.__sctp.transport.transport.stop().
CloseDtlsStopped ==
  /\ closer = "stopDtls"
  /\ tr' = DtlsStopped(tr, 1)
  /\ Commit(AfterDtlsStop(Agg, TRUE, iceTransports, dtlsTransports, tr, 1))
  /\ IF sctp.transport = NoTransport
     THEN closer' = "raised" /\ ret' = Ret("close", "AttributeError")
     ELSE closer' = "stopIce" /\ ret' = NoRet
  /\ UNCHANGED <<slotVars, sctpVars, setVars, setLocal, setRemote, addCand,
                 closeWaiters, connect, isClosed, listeners, calls, closeCalls, budget>>

\* The ICE transport's stop() returns; close() runs to its end.
CloseIceStopped ==
  /\ closer = "stopIce"
  /\ tr' = IceStopped(tr, 1)
  /\ CloseFinish(AfterIceStop(Agg, TRUE, iceTransports, dtlsTransports, tr, 1),
                 IceStopped(tr, 1))
  /\ UNCHANGED <<slotVars, sctpVars, setVars, setLocal, setRemote, addCand,
                 closeWaiters, connect, calls, closeCalls, budget>>

\* A close() call that found __isClosed pending returns once it is resolved.
CloseWaiterReturn ==
  /\ closeWaiters > 0
  /\ isClosed = "done"
  /\ closeWaiters' = closeWaiters - 1
  /\ ret' = Ret("close", "ok")
  /\ Commit(Agg)
  /\ UNCHANGED <<slotVars, sctpVars, setVars, setLocal, setRemote, addCand,
                 closer, connect, isClosed, tr, listeners, calls, closeCalls, budget>>

\* ------------------------------------------------ createOffer / createAnswer

Max(a, b) == IF a >= b THEN a ELSE b
MinOf(S) == CHOOSE x \in S : \A y \in S : x <= y
MaxOf(S) == CHOOSE x \in S : \A y \in S : x >= y

LocalDescription == ActiveDescription(pendingLocalDescription, currentLocalDescription)
RemoteDescription == ActiveDescription(pendingRemoteDescription, currentRemoteDescription)

LocalCandidates(t) == IF t.localCands THEN <<Candidate(NoMid, NoMid)>> ELSE <<>>

\* add_transport_description: candidates, completeness and ICE parameters of
\* the gatherer; an existing media.dtls keeps its role.
add_transport_description(media, t) ==
  [media EXCEPT !.cands = LocalCandidates(t),
                !.complete = (t.gatherer = "completed"),
                !.ufrag = TRUE, !.pwd = TRUE, !.iceLite = FALSE]

\* create_media_description_for_sctp: media.dtls is the transport's
\* getLocalParameters(), which carries the transport's role.
create_media_description_for_sctp(mid, t) ==
  add_transport_description(Section("application", mid, TRUE, TRUE, t.role), t)

\* Whether create_media_description_for_sctp can be evaluated: self.__sctp and
\* its transport are dereferenced.
SctpUsable == sctp.exists /\ sctp.transport # NoTransport

RECURSIVE SortedSeq(_)
SortedSeq(S) == IF S = {} THEN <<>> ELSE <<MinOf(S)>> \o SortedSeq(S \ {MinOf(S)})

\* createOffer refusing to create an offer with no media section.
OfferBody_RefusesEmpty ==
  LET local_media == LocalDescription.media
      remote_media == RemoteDescription.media
      n == Max(Len(local_media), Len(remote_media))
      m(i) == IF i <= Len(local_media) THEN local_media[i] ELSE remote_media[i]
      app == SortedSeq({i \in 1..n : m(i).kind = "application"})
      recycled == [k \in 1..Len(app) |->
                     create_media_description_for_sctp(m(app[k]).mid, tr[sctp.transport])]
      fresh == sctp.exists /\ sctp.mid = NoMid
      media == IF fresh
               THEN Append(recycled,
                      create_media_description_for_sctp(allocate_mid(seenMids),
                                                        tr[sctp.transport]))
               ELSE recycled
  IN  IF media = <<>>
      THEN [err |-> "InternalError", desc |-> NoDesc, mline |-> sctp_mline_index]
      ELSE IF Len(app) > 0 /\ ~SctpUsable
      THEN [err |-> "AttributeError", desc |-> NoDesc, mline |-> app[1] - 1]
      ELSE IF fresh /\ ~SctpUsable
      THEN [err |-> "AttributeError", desc |-> NoDesc, mline |-> Len(app)]
      ELSE [err |-> "ok",
            desc |-> Desc("offer", media, MidsOf(media)),
            mline |-> IF fresh THEN Len(app)
                      ELSE IF Len(app) > 0 THEN app[Len(app)] - 1
                      ELSE sctp_mline_index]

\* The body of createOffer after __assertNotClosed: [err, desc, mline].
OfferBody ==
  LET local_media == LocalDescription.media
      remote_media == RemoteDescription.media
      n == Max(Len(local_media), Len(remote_media))
      m(i) == IF i <= Len(local_media) THEN local_media[i] ELSE remote_media[i]
      app == SortedSeq({i \in 1..n : m(i).kind = "application"})
      recycled == [k \in 1..Len(app) |->
                     create_media_description_for_sctp(m(app[k]).mid, tr[sctp.transport])]
      fresh == sctp.exists /\ sctp.mid = NoMid
      media == IF fresh
               THEN Append(recycled,
                      create_media_description_for_sctp(allocate_mid(seenMids),
                                                        tr[sctp.transport]))
               ELSE recycled
  IN  IF Len(app) > 0 /\ ~SctpUsable
      THEN [err |-> "AttributeError", desc |-> NoDesc, mline |-> app[1] - 1]
      ELSE IF fresh /\ ~SctpUsable
      THEN [err |-> "AttributeError", desc |-> NoDesc, mline |-> Len(app)]
      ELSE [err |-> "ok",
            desc |-> Desc("offer", media, MidsOf(media)),
            mline |-> IF fresh THEN Len(app)
                      ELSE IF Len(app) > 0 THEN app[Len(app)] - 1
                      ELSE sctp_mline_index]

CreateOffer ==
  /\ calls < budget
  /\ calls' = calls + 1
  /\ Commit(Agg)
  /\ IF Closed
     THEN ret' = Ret("createOffer", ClosedError) /\ UNCHANGED sctp_mline_index
     ELSE /\ sctp_mline_index' = OfferBody.mline
          /\ ret' = IF OfferBody.err = "ok"
                    THEN RetDesc("createOffer", OfferBody.desc)
                    ELSE Ret("createOffer", OfferBody.err)
  /\ UNCHANGED <<slotVars, seenMids, sctp, remoteIce, setVars, procVars,
                 isClosed, tr, listeners, closeCalls, budget>>

AnswerStateError(state) ==
  "InvalidStateError: Cannot create answer in signaling state " \o state

\* createAnswer without the check of the signalling state.
AnswerBody_NoStateCheck ==
  LET remote_media == RemoteDescription.media
      t == tr[sctp.transport]
      role == IF t.role = "auto" THEN "client" ELSE t.role
      media == [k \in 1..Len(remote_media) |->
                  [create_media_description_for_sctp(sctp.mid, t) EXCEPT !.role = role]]
  IN  IF Closed THEN [err |-> ClosedError, desc |-> NoDesc]
      ELSE IF Len(remote_media) > 0 /\ ~SctpUsable
      THEN [err |-> "AttributeError", desc |-> NoDesc]
      ELSE [err |-> "ok", desc |-> Desc("answer", media, MidsOf(media))]

\* createAnswer: "ok" with the description, or the exception.
AnswerBody ==
  LET remote_media == RemoteDescription.media
      t == tr[sctp.transport]
      role == IF t.role = "auto" THEN "client" ELSE t.role
      media == [k \in 1..Len(remote_media) |->
                  [create_media_description_for_sctp(sctp.mid, t) EXCEPT !.role = role]]
  IN  IF Closed THEN [err |-> ClosedError, desc |-> NoDesc]
      ELSE IF signalingState \notin {"have-remote-offer", "have-local-pranswer"}
      THEN [err |-> AnswerStateError(signalingState), desc |-> NoDesc]
      ELSE IF Len(remote_media) > 0 /\ ~SctpUsable
      THEN [err |-> "AttributeError", desc |-> NoDesc]
      ELSE [err |-> "ok", desc |-> Desc("answer", media, MidsOf(media))]

CreateAnswer ==
  /\ calls < budget
  /\ calls' = calls + 1
  /\ Commit(Agg)
  /\ ret' = IF AnswerBody.err = "ok"
            THEN RetDesc("createAnswer", AnswerBody.desc)
            ELSE Ret("createAnswer", AnswerBody.err)
  /\ UNCHANGED <<slotVars, sctpVars, setVars, procVars, isClosed, tr,
                 listeners, closeCalls, budget>>

\* ---------------------------------------------------- setLocalDescription

AppSections(media) == {i \in 1..Len(media) : media[i].kind = "application"}

\* "assign MID": every MID is recorded; an application section sets the SCTP
\* transport's MID, which raises when there is no SCTP transport.
RECURSIVE AssignMids(_, _, _)
AssignMids(media, k, acc) ==
  IF k > Len(media) \/ acc.err # "ok" THEN acc
  ELSE LET seen == acc.seen \cup {media[k].mid}
       IN  IF media[k].kind # "application"
           THEN AssignMids(media, k + 1, [acc EXCEPT !.seen = seen])
           ELSE IF ~acc.sctp.exists
           THEN [acc EXCEPT !.seen = seen, !.err = "AttributeError"]
           ELSE AssignMids(media, k + 1,
                  [acc EXCEPT !.seen = seen, !.sctp.mid = media[k].mid])

\* "set ICE role" of setLocalDescription without the test of _role_set.
LocalIceRoles_Overwrites(t, its) ==
  [x \in Transports |->
     IF x \in its
     THEN [t[x] EXCEPT !.controlling = TRUE, !.roleSet = TRUE]
     ELSE t[x]]

\* "set ICE role" of setLocalDescription.
LocalIceRoles(t, its) ==
  [x \in Transports |->
     IF x \in its /\ ~t[x].roleSet
     THEN [t[x] EXCEPT !.controlling = TRUE, !.roleSet = TRUE]
     ELSE t[x]]

\* setLocalDescription with a signalling state for a provisional answer.
LocalApply_Pranswer(d) ==
  LET a == IF d.type = "offer" THEN SetSignalingState(Agg, "have-local-offer")
           ELSE IF d.type = "answer" THEN SetSignalingState(Agg, "stable")
           ELSE IF d.type = "pranswer"
           THEN SetSignalingState(Agg, "have-local-pranswer")
           ELSE Agg
      am == AssignMids(d.media, 1, [seen |-> seenMids, sctp |-> sctp, err |-> "ok"])
      t1 == IF d.type = "offer" THEN LocalIceRoles(tr, iceTransports) ELSE tr
      apps == AppSections(d.media)
      setsRole == d.type = "answer" /\ apps # {}
      roleErr == setsRole /\ am.sctp.transport = NoTransport
      t2 == IF setsRole
            THEN [t1 EXCEPT ![am.sctp.transport].role = d.media[MaxOf(apps)].role]
            ELSE t1
  IN  IF am.err # "ok"
      THEN [err |-> am.err, a |-> a, seen |-> am.seen, sctp |-> am.sctp, t |-> tr]
      ELSE IF roleErr
      THEN [err |-> "AttributeError", a |-> a, seen |-> am.seen, sctp |-> am.sctp, t |-> t1]
      ELSE [err |-> "ok", a |-> a, seen |-> am.seen, sctp |-> am.sctp, t |-> t2]

\* setLocalDescription from "update signaling state" to the call of __gather:
\* what it has written when it gets there or raises.
LocalApply(d) ==
  LET a == IF d.type = "offer" THEN SetSignalingState(Agg, "have-local-offer")
           ELSE IF d.type = "answer" THEN SetSignalingState(Agg, "stable")
           ELSE Agg
      am == AssignMids(d.media, 1, [seen |-> seenMids, sctp |-> sctp, err |-> "ok"])
      t1 == IF d.type = "offer" THEN LocalIceRoles(tr, iceTransports) ELSE tr
      apps == AppSections(d.media)
      setsRole == d.type = "answer" /\ apps # {}
      roleErr == setsRole /\ am.sctp.transport = NoTransport
      t2 == IF setsRole
            THEN [t1 EXCEPT ![am.sctp.transport].role = d.media[MaxOf(apps)].role]
            ELSE t1
  IN  IF am.err # "ok"
      THEN [err |-> am.err, a |-> a, seen |-> am.seen, sctp |-> am.sctp, t |-> tr]
      ELSE IF roleErr
      THEN [err |-> "AttributeError", a |-> a, seen |-> am.seen, sctp |-> am.sctp, t |-> t1]
      ELSE [err |-> "ok", a |-> a, seen |-> am.seen, sctp |-> am.sctp, t |-> t2]

\* setLocalDescription storing every description as it stores an answer.
LocalFinish_AlwaysCurrent(k, a, s, t) ==
  LET d == k.desc
      apps == AppSections(d.media)
      media == [i \in 1..Len(d.media) |->
                  IF i \in apps
                  THEN add_transport_description(d.media[i], t[s.transport])
                  ELSE d.media[i]]
      stored == [d EXCEPT !.media = media]
  IN  /\ Commit(a)
      /\ setLocal' = Idle
      /\ IF apps # {} /\ s.transport = NoTransport
         THEN /\ ret' = RetSet("setLocalDescription", "AttributeError", k)
              /\ UNCHANGED <<connect, pendingLocalDescription, currentLocalDescription>>
         ELSE /\ ret' = RetSet("setLocalDescription", "ok", k)
              /\ connect' = [connect EXCEPT !.scheduled = @ + 1]
              /\ IF d.type = "answer"
                 THEN /\ currentLocalDescription' = stored
                      /\ pendingLocalDescription' = NoDesc
                 ELSE /\ currentLocalDescription' = stored
                      /\ pendingLocalDescription' = NoDesc

\* setLocalDescription after __gather: the application sections take the
\* transport's description, the connect driver is scheduled, the description
\* is stored.
LocalFinish(k, a, s, t) ==
  LET d == k.desc
      apps == AppSections(d.media)
      media == [i \in 1..Len(d.media) |->
                  IF i \in apps
                  THEN add_transport_description(d.media[i], t[s.transport])
                  ELSE d.media[i]]
      stored == [d EXCEPT !.media = media]
  IN  /\ Commit(a)
      /\ setLocal' = Idle
      /\ IF apps # {} /\ s.transport = NoTransport
         THEN /\ ret' = RetSet("setLocalDescription", "AttributeError", k)
              /\ UNCHANGED <<connect, pendingLocalDescription, currentLocalDescription>>
         ELSE /\ ret' = RetSet("setLocalDescription", "ok", k)
              /\ connect' = [connect EXCEPT !.scheduled = @ + 1]
              /\ IF d.type = "answer"
                 THEN /\ currentLocalDescription' = stored
                      /\ pendingLocalDescription' = NoDesc
                 ELSE /\ pendingLocalDescription' = stored
                      /\ UNCHANGED currentLocalDescription

\* The description and __sctp_mline_index after the head of
\* setLocalDescription: the argument, or the implicit offer or answer.
LocalArgument(arg) ==
  IF arg # NoDesc
  THEN [err |-> "ok", desc |-> arg, mline |-> sctp_mline_index]
  ELSE IF signalingState = "have-remote-offer"
  THEN [err |-> AnswerBody.err, desc |-> AnswerBody.desc, mline |-> sctp_mline_index]
  ELSE OfferBody

SetLocalDescription(arg) ==
  /\ calls < budget
  /\ setLocal.pc = "idle"
  /\ calls' = calls + 1
  /\ UNCHANGED <<pendingRemoteDescription, currentRemoteDescription, remoteIce,
                 setVars, setRemote, addCand, closer, closeWaiters, isClosed,
                 listeners, closeCalls, budget>>
  /\ IF Closed
     THEN /\ ret' = RetSet("setLocalDescription", ClosedError, Call(arg))
          /\ Commit(Agg)
          /\ UNCHANGED <<pendingLocalDescription, currentLocalDescription,
                         seenMids, sctp, sctp_mline_index, tr, setLocal, connect>>
     ELSE
     LET made == LocalArgument(arg)
         v == ValidateDescription(made.desc, TRUE, signalingState,
                                  LocalDescription, RemoteDescription)
         ap == LocalApply(made.desc)
         k == Call(made.desc)
     IN  /\ sctp_mline_index' = made.mline
         /\ IF made.err # "ok" \/ v # "ok"
            THEN /\ ret' = RetSet("setLocalDescription",
                                  IF made.err # "ok" THEN made.err ELSE v, k)
                 /\ Commit(Agg)
                 /\ UNCHANGED <<pendingLocalDescription, currentLocalDescription,
                                seenMids, sctp, tr, setLocal, connect>>
            ELSE /\ seenMids' = ap.seen
                 /\ sctp' = ap.sctp
                 /\ tr' = ap.t
                 /\ IF ap.err # "ok"
                    THEN /\ ret' = RetSet("setLocalDescription", ap.err, k)
                         /\ Commit(ap.a)
                         /\ UNCHANGED <<pendingLocalDescription,
                                        currentLocalDescription, setLocal, connect>>
                    ELSE IF iceTransports = {}
                    THEN LocalFinish(k, ap.a, ap.sctp, ap.t)
                    ELSE /\ setLocal' = [pc |-> "gather", call |-> k]
                         /\ ret' = NoRet
                         /\ Commit(ap.a)
                         /\ UNCHANGED <<pendingLocalDescription,
                                        currentLocalDescription, connect>>

\* RTCIceGatherer.gather(), started by __gather for every ICE transport: a new
\* gatherer starts gathering ...
GatherBegin ==
  /\ setLocal.pc = "gather"
  /\ tr[1].gatherer = "new"
  /\ tr' = [tr EXCEPT ![1].gatherer = "gathering"]
  /\ Commit(OnGathererChange(Agg, iceTransports, tr'))
  /\ ret' = NoRet
  /\ UNCHANGED <<slotVars, sctpVars, setVars, procVars, isClosed, listeners,
                 calls, closeCalls, budget>>

\* ... and completes, with or without local candidates.
GatherEnd(found) ==
  /\ tr[1].gatherer = "gathering"
  /\ tr' = [tr EXCEPT ![1].gatherer = "completed", ![1].localCands = found]
  /\ Commit(OnGathererChange(Agg, iceTransports, tr'))
  /\ ret' = NoRet
  /\ UNCHANGED <<slotVars, sctpVars, setVars, procVars, isClosed, listeners,
                 calls, closeCalls, budget>>

\* await self.__gather() returns: every gatherer has completed.
SetLocalGathered ==
  /\ setLocal.pc = "gather"
  /\ tr[1].gatherer = "completed"
  /\ LocalFinish(setLocal.call, Agg, sctp, tr)
  /\ UNCHANGED <<pendingRemoteDescription, currentRemoteDescription, sctpVars,
                 setVars, setRemote, addCand, closer, closeWaiters, isClosed,
                 tr, listeners, calls, closeCalls, budget>>

\* --------------------------------------------------- setRemoteDescription

\* The apply loop taking the role of the answer instead of its opposite.
RemoteSection_SameRole(acc, media, i0, type) ==
  LET seen == acc.seen \cup {media.mid}
      create == ~acc.sctp.exists
      its == IF create THEN acc.its \cup {1} ELSE acc.its
      dts == IF create THEN acc.dts \cup {1} ELSE acc.dts
      a == IF create THEN UpdateStates(acc.a, Closed, its, dts, acc.t) ELSE acc.a
      s0 == IF create THEN CreatedSctp ELSE acc.sctp
      bind == s0.mid = NoMid
      s1 == IF bind THEN [s0 EXCEPT !.mid = media.mid] ELSE s0
      x == s1.transport
      t0 == acc.t
      t1 == IF type = "offer" /\ ~t0[x].roleSet
            THEN [t0 EXCEPT ![x].controlling = media.iceLite, ![x].roleSet = TRUE]
            ELSE t0
      t2 == IF type = "offer" /\ media.role = "client"
            THEN [t1 EXCEPT ![x].role = "server"]
            ELSE t1
      t3 == IF type = "answer"
            THEN [t2 EXCEPT ![x].role = media.role]
            ELSE t2
  IN  IF media.kind # "application"
      THEN [acc EXCEPT !.seen = seen]
      ELSE [acc EXCEPT !.seen = seen, !.its = its, !.dts = dts, !.a = a,
                       !.sctp = s1,
                       !.mline = IF bind THEN i0 ELSE @,
                       !.remoteIce = TRUE,
                       !.cands = IF x # NoTransport THEN TRUE ELSE @,
                       !.t = IF x # NoTransport THEN t3 ELSE @]

\* One turn of the "apply description" loop; i0 is the m-line index (from 0).
\* acc.cands says whether iceCandidates has an entry for the ICE transport.
RemoteSection(acc, media, i0, type) ==
  LET seen == acc.seen \cup {media.mid}
      create == ~acc.sctp.exists
      its == IF create THEN acc.its \cup {1} ELSE acc.its
      dts == IF create THEN acc.dts \cup {1} ELSE acc.dts
      a == IF create THEN UpdateStates(acc.a, Closed, its, dts, acc.t) ELSE acc.a
      s0 == IF create THEN CreatedSctp ELSE acc.sctp
      bind == s0.mid = NoMid
      s1 == IF bind THEN [s0 EXCEPT !.mid = media.mid] ELSE s0
      x == s1.transport
      t0 == acc.t
      t1 == IF type = "offer" /\ ~t0[x].roleSet
            THEN [t0 EXCEPT ![x].controlling = media.iceLite, ![x].roleSet = TRUE]
            ELSE t0
      t2 == IF type = "offer" /\ media.role = "client"
            THEN [t1 EXCEPT ![x].role = "server"]
            ELSE t1
      t3 == IF type = "answer"
            THEN [t2 EXCEPT ![x].role = IF media.role = "client" THEN "server" ELSE "client"]
            ELSE t2
  IN  IF media.kind # "application"
      THEN [acc EXCEPT !.seen = seen]
      ELSE [acc EXCEPT !.seen = seen, !.its = its, !.dts = dts, !.a = a,
                       !.sctp = s1,
                       !.mline = IF bind THEN i0 ELSE @,
                       !.remoteIce = TRUE,
                       !.cands = IF x # NoTransport THEN TRUE ELSE @,
                       !.t = IF x # NoTransport THEN t3 ELSE @]

RECURSIVE RemoteSections(_, _, _, _)
RemoteSections(acc, media, k, type) ==
  IF k > Len(media) THEN acc
  ELSE RemoteSections(RemoteSection(acc, media[k], k - 1, type), media, k + 1, type)

RemoteApply(d) ==
  RemoteSections([seen |-> seenMids, sctp |-> sctp, mline |-> sctp_mline_index,
                  remoteIce |-> remoteIce, its |-> iceTransports,
                  dts |-> dtlsTransports, t |-> tr, a |-> Agg, cands |-> FALSE],
                 d.media, 1, d.type)

\* "remove bundled transports", up to the loop that stops them: the SCTP
\* transport as it is left and the set oldTransports.
BundleItems(d) == {d.bundle[k] : k \in 2..Len(d.bundle)}
BundleCollapses(d, s) ==
  Len(d.bundle) > 0 /\ s.exists /\ s.mid \in BundleItems(d) /\ ~s.bundled
PrimaryTransport(d, s) ==
  IF s.exists /\ s.mid = d.bundle[1] THEN s.transport ELSE NoTransport
\* RTCSctpTransport.setTransport: the SCTP transport runs over t from now on.
setTransport(s, t) == [s EXCEPT !.transport = t]
BundledSctp(d, s) ==
  IF BundleCollapses(d, s)
  THEN [setTransport(s, PrimaryTransport(d, s)) EXCEPT !.bundled = TRUE]
  ELSE s

\* setRemoteDescription from "connect" to its end: the connect driver is
\* scheduled, the signalling state updated, the description stored.
RemoteFinish(k, a) ==
  LET d == k.desc IN
  /\ Commit(IF d.type = "offer" THEN SetSignalingState(a, "have-remote-offer")
            ELSE IF d.type = "answer" THEN SetSignalingState(a, "stable")
            ELSE a)
  /\ connect' = [connect EXCEPT !.scheduled = @ + 1]
  /\ setRemote' = Idle
  /\ ret' = RetSet("setRemoteDescription", "ok", k)
  /\ IF d.type = "answer"
     THEN /\ currentRemoteDescription' = d
          /\ pendingRemoteDescription' = NoDesc
     ELSE /\ pendingRemoteDescription' = d
          /\ UNCHANGED currentRemoteDescription

\* "add remote candidates": awaits the ICE transport when iceCandidates is
\* not empty, else runs on.
RemoteCandidates(k, a, cands) ==
  IF cands
  THEN /\ setRemote' = [pc |-> "cands", call |-> k, cands |-> TRUE]
       /\ Commit(a)
       /\ ret' = NoRet
       /\ UNCHANGED <<connect, pendingRemoteDescription, currentRemoteDescription>>
  ELSE RemoteFinish(k, a)

SetRemoteDescription(d) ==
  /\ calls < budget
  /\ setRemote.pc = "idle"
  /\ calls' = calls + 1
  /\ UNCHANGED <<pendingLocalDescription, currentLocalDescription, setLocal,
                 addCand, closer, closeWaiters, isClosed, listeners, closeCalls, budget>>
  /\ LET v == ValidateDescription(d, FALSE, signalingState,
                                  LocalDescription, RemoteDescription)
         ap == RemoteApply(d)
         k == Call(d)
     IN  IF v # "ok"
         THEN /\ ret' = RetSet("setRemoteDescription", v, k)
              /\ Commit(Agg)
              /\ UNCHANGED <<pendingRemoteDescription, currentRemoteDescription,
                             sctpVars, setVars, tr, setRemote, connect>>
         ELSE /\ seenMids' = ap.seen
              /\ sctp_mline_index' = ap.mline
              /\ remoteIce' = ap.remoteIce
              /\ iceTransports' = ap.its
              /\ dtlsTransports' = ap.dts
              /\ tr' = ap.t
              /\ sctp' = BundledSctp(d, ap.sctp)
              /\ IF BundleCollapses(d, ap.sctp)
                 THEN /\ setRemote' = [pc |-> "stopDtls", call |-> k, cands |-> ap.cands]
                      /\ Commit(ap.a)
                      /\ ret' = NoRet
                      /\ UNCHANGED <<connect, pendingRemoteDescription,
                                     currentRemoteDescription>>
                 ELSE RemoteCandidates(k,
                        IF Len(d.bundle) > 0
                        THEN UpdateStates(ap.a, Closed, ap.its, ap.dts, ap.t)
                        ELSE ap.a,
                        ap.cands)

\* await dtlsTransport.stop() returns for the discarded transport.
RemoteDtlsStopped ==
  /\ setRemote.pc = "stopDtls"
  /\ tr' = DtlsStopped(tr, 1)
  /\ Commit(AfterDtlsStop(Agg, Closed, iceTransports, dtlsTransports, tr, 1))
  /\ setRemote' = [setRemote EXCEPT !.pc = "stopIce"]
  /\ ret' = NoRet
  /\ UNCHANGED <<slotVars, sctpVars, setVars, setLocal, addCand, closer,
                 closeWaiters, connect, isClosed, listeners, calls, closeCalls, budget>>

\* The BUNDLE collapse leaving the discarded transport in iceCandidates.
RemoteIceStopped_KeepsCandidates ==
  /\ setRemote.pc = "stopIce"
  /\ tr' = IceStopped(tr, 1)
  /\ dtlsTransports' = dtlsTransports \ {1}
  /\ iceTransports' = iceTransports \ {1}
  /\ RemoteCandidates(setRemote.call,
       UpdateStates(AfterIceStop(Agg, Closed, iceTransports, dtlsTransports, tr, 1),
                    Closed, iceTransports \ {1}, dtlsTransports \ {1},
                    IceStopped(tr, 1)),
       setRemote.cands)
  /\ UNCHANGED <<pendingLocalDescription, currentLocalDescription, sctpVars,
                 setLocal, addCand, closer, closeWaiters, isClosed, listeners,
                 calls, closeCalls, budget>>

\* await dtlsTransport.transport.stop() returns: the transports are
\* discarded, the aggregate states updated, the candidates added.
RemoteIceStopped ==
  /\ setRemote.pc = "stopIce"
  /\ tr' = IceStopped(tr, 1)
  /\ dtlsTransports' = dtlsTransports \ {1}
  /\ iceTransports' = iceTransports \ {1}
  /\ RemoteCandidates(setRemote.call,
       UpdateStates(AfterIceStop(Agg, Closed, iceTransports, dtlsTransports, tr, 1),
                    Closed, iceTransports \ {1}, dtlsTransports \ {1},
                    IceStopped(tr, 1)),
       FALSE)
  /\ UNCHANGED <<pendingLocalDescription, currentLocalDescription, sctpVars,
                 setLocal, addCand, closer, closeWaiters, isClosed, listeners,
                 calls, closeCalls, budget>>

\* The media section iceCandidates holds for the ICE transport: the last
\* application section of the description.
IceSection(d) == d.media[MaxOf(AppSections(d.media))]

\* The task of add_remote_candidates runs: asyncio.gather starts one task per
\* candidate of the section, in order, each calling addRemoteCandidate.
RemoteCandidatesHanded ==
  /\ setRemote.pc = "cands"
  /\ IceSection(setRemote.call.desc).cands # <<>>
  /\ tr' = HandOver(tr, 1, IceSection(setRemote.call.desc).cands)
  /\ setRemote' = [setRemote EXCEPT !.pc = "gathered"]
  /\ ret' = NoRet
  /\ Commit(Agg)
  /\ UNCHANGED <<slotVars, sctpVars, setVars, setLocal, addCand, closer,
                 closeWaiters, connect, isClosed, listeners, calls, closeCalls, budget>>

\* await asyncio.gather(*coros) of add_remote_candidates has returned (with
\* no candidate it does not suspend) and ice_candidates_complete is set:
\* addRemoteCandidate(None) is called.
RemoteMarkerHanded ==
  /\ \/ setRemote.pc = "cands" /\ IceSection(setRemote.call.desc).cands = <<>>
     \/ setRemote.pc = "gathered"
  /\ IceSection(setRemote.call.desc).complete
  /\ tr' = HandOver(tr, 1, <<NullCandidate>>)
  /\ setRemote' = [setRemote EXCEPT !.pc = "marker"]
  /\ ret' = NoRet
  /\ Commit(Agg)
  /\ UNCHANGED <<slotVars, sctpVars, setVars, setLocal, addCand, closer,
                 closeWaiters, connect, isClosed, listeners, calls, closeCalls, budget>>

\* await asyncio.gather(*coros) of setRemoteDescription returns: the task of
\* add_remote_candidates has ended.
RemoteCandidatesAdded ==
  /\ \/ /\ setRemote.pc = "cands"
        /\ IceSection(setRemote.call.desc).cands = <<>>
        /\ ~IceSection(setRemote.call.desc).complete
     \/ setRemote.pc = "gathered" /\ ~IceSection(setRemote.call.desc).complete
     \/ setRemote.pc = "marker"
  /\ RemoteFinish(setRemote.call, Agg)
  /\ UNCHANGED <<pendingLocalDescription, currentLocalDescription, sctpVars,
                 setVars, setLocal, addCand, closer, closeWaiters, isClosed, tr,
                 listeners, calls, closeCalls, budget>>

\* The task that runs setLocalDescription is cancelled while it awaits
\* __gather: CancelledError is raised at the await and leaves the coroutine,
\* which has no handler; what the call has written stays written.
CancelSetLocal ==
  /\ setLocal.pc = "gather"
  /\ setLocal' = Idle
  /\ ret' = RetSet("setLocalDescription", "CancelledError", setLocal.call)
  /\ Commit(Agg)
  /\ UNCHANGED <<slotVars, sctpVars, setVars, setRemote, addCand, closer,
                 closeWaiters, connect, isClosed, tr, listeners, calls,
                 closeCalls, budget>>

\* The task that runs setRemoteDescription is cancelled while it awaits a
\* transport's stop() or the dispatch of the candidates.
CancelSetRemote ==
  /\ setRemote.pc # "idle"
  /\ setRemote' = Idle
  /\ ret' = RetSet("setRemoteDescription", "CancelledError", setRemote.call)
  /\ Commit(Agg)
  /\ UNCHANGED <<slotVars, sctpVars, setVars, setLocal, addCand, closer,
                 closeWaiters, connect, isClosed, tr, listeners, calls,
                 closeCalls, budget>>

\* -------------------------------------------------------- addIceCandidate

CandidateInputs ==
  {NullCandidate, Candidate(NoMid, NoMid), Candidate(0, NoMid),
   Candidate(NoMid, 0), Candidate(1, NoMid)}

\* The condition under which the candidate goes to the SCTP transport's ICE
\* transport: "and" binds tighter than "or".
ForwardsCandidate(c, s, mline) ==
  s.exists /\ (c.null \/ ((c.sdpMid = s.mid \/ c.sdpMLineIndex = mline) /\ ~s.bundled))

\* The mirror step requiring both the index and the MID to match.
MirrorCandidate_Both(media, c) ==
  [k \in 1..Len(media) |->
     IF c.null THEN [media[k] EXCEPT !.complete = TRUE]
     ELSE IF c.sdpMLineIndex = k - 1 /\ c.sdpMid = media[k].mid
          THEN [media[k] EXCEPT !.cands = Append(@, c)]
          ELSE media[k]]

\* "Update the remote description."
MirrorCandidate(media, c) ==
  [k \in 1..Len(media) |->
     IF c.null THEN [media[k] EXCEPT !.complete = TRUE]
     ELSE IF c.sdpMLineIndex = k - 1 \/ c.sdpMid = media[k].mid
          THEN [media[k] EXCEPT !.cands = Append(@, c)]
          ELSE media[k]]

AddMirror(c) ==
  /\ addCand' = Idle
  /\ IF RemoteDescription = NoDesc
     THEN /\ ret' = RetCand("AttributeError", c)
          /\ UNCHANGED <<pendingRemoteDescription, currentRemoteDescription>>
     ELSE /\ ret' = RetCand("ok", c)
          /\ IF pendingRemoteDescription # NoDesc
             THEN /\ pendingRemoteDescription' =
                       [pendingRemoteDescription EXCEPT !.media = MirrorCandidate(@, c)]
                  /\ UNCHANGED currentRemoteDescription
             ELSE /\ currentRemoteDescription' =
                       [currentRemoteDescription EXCEPT !.media = MirrorCandidate(@, c)]
                  /\ UNCHANGED pendingRemoteDescription

AddIceCandidate(c) ==
  /\ calls < budget
  /\ addCand.pc = "idle"
  /\ calls' = calls + 1
  /\ Commit(Agg)
  /\ UNCHANGED <<pendingLocalDescription, currentLocalDescription, sctpVars,
                 setVars, setLocal, setRemote, closer, closeWaiters, connect,
                 isClosed, listeners, closeCalls, budget>>
  /\ IF ~c.null /\ c.sdpMid = NoMid /\ c.sdpMLineIndex = NoMid
     THEN /\ ret' = RetCand("ValueError: Candidate must have either sdpMid or sdpMLineIndex",
                            c)
          /\ UNCHANGED <<addCand, pendingRemoteDescription, currentRemoteDescription, tr>>
     ELSE IF ForwardsCandidate(c, sctp, sctp_mline_index)
     THEN /\ UNCHANGED <<pendingRemoteDescription, currentRemoteDescription>>
          /\ IF sctp.transport = NoTransport
             THEN ret' = RetCand("AttributeError", c) /\ UNCHANGED <<addCand, tr>>
             ELSE /\ ret' = NoRet
                  /\ addCand' = [pc |-> "forward", cand |-> c]
                  /\ tr' = HandOver(tr, sctp.transport, <<c>>)
     ELSE AddMirror(c) /\ UNCHANGED tr

\* await iceTransport.addRemoteCandidate(candidate) returns.
CandidateForwarded ==
  /\ addCand.pc = "forward"
  /\ Commit(Agg)
  /\ AddMirror(addCand.cand)
  /\ UNCHANGED <<pendingLocalDescription, currentLocalDescription, sctpVars,
                 setVars, setLocal, setRemote, closer, closeWaiters, connect,
                 isClosed, tr, listeners, calls, closeCalls, budget>>

\* ---------------------------------------------------------- connect driver

IceEnded(t) == t.ice \in {"completed", "failed", "closed"}
DtlsEnded(t) == t.dtls \in {"connected", "failed", "closed"}

\* __connect from the return of iceTransport.start(): the DTLS transport is
\* started when new, then the SCTP transport when DTLS is connected.  The
\* task of the connect driver is one of connect.dtls, connect.sctp or ended.
ConnectAfterIce(c) ==
  IF tr[1].dtls = "new"
  THEN /\ tr' = [tr EXCEPT ![1].dtls = "connecting"]
       /\ Commit(OnDtlsChange(Agg, Closed, iceTransports, dtlsTransports,
                              [tr EXCEPT ![1].dtls = "connecting"]))
       /\ connect' = [c EXCEPT !.dtls = @ + 1]
  ELSE /\ tr' = IF tr[1].dtls = "connected"
                THEN [tr EXCEPT ![1].sctpStarted = TRUE]
                ELSE tr
       /\ Commit(Agg)
       /\ connect' = IF tr[1].dtls = "connected" THEN [c EXCEPT !.sctp = @ + 1] ELSE c

\* __connect starting the ICE transport without asking for local candidates.
ConnectRun_NoCandidateCheck ==
  /\ connect.scheduled > 0
  /\ ret' = NoRet
  /\ UNCHANGED <<slotVars, sctpVars, setVars, setLocal, setRemote, addCand,
                 closer, closeWaiters, isClosed, listeners, calls, closeCalls, budget>>
  /\ LET c == [connect EXCEPT !.scheduled = @ - 1]
     IN  IF SctpUsable /\ remoteIce
         THEN /\ connect' = [c EXCEPT !.ice = @ + 1]
              /\ IF tr[1].ice = "new" /\ ~tr[1].iceStarted
                 THEN /\ tr' = [tr EXCEPT ![1].ice = "checking", ![1].iceStarted = TRUE]
                      /\ Commit(OnIceChange(Agg, Closed, iceTransports, dtlsTransports,
                                  [tr EXCEPT ![1].ice = "checking"]))
                 ELSE tr' = tr /\ Commit(Agg)
         ELSE connect' = c /\ tr' = tr /\ Commit(Agg)

\* A scheduled __connect task runs up to its first await.
ConnectRun ==
  /\ connect.scheduled > 0
  /\ ret' = NoRet
  /\ UNCHANGED <<slotVars, sctpVars, setVars, setLocal, setRemote, addCand,
                 closer, closeWaiters, isClosed, listeners, calls, closeCalls, budget>>
  /\ LET c == [connect EXCEPT !.scheduled = @ - 1]
     IN  IF SctpUsable /\ tr[sctp.transport].localCands /\ remoteIce
         THEN /\ connect' = [c EXCEPT !.ice = @ + 1]
              /\ IF tr[1].ice = "new" /\ ~tr[1].iceStarted
                 THEN /\ tr' = [tr EXCEPT ![1].ice = "checking", ![1].iceStarted = TRUE]
                      /\ Commit(OnIceChange(Agg, Closed, iceTransports, dtlsTransports,
                                  [tr EXCEPT ![1].ice = "checking"]))
                 ELSE tr' = tr /\ Commit(Agg)
         ELSE connect' = c /\ tr' = tr /\ Commit(Agg)

\* RTCIceTransport: the connectivity checks end.
IceChecked(state) ==
  /\ tr[1].ice = "checking"
  /\ tr' = [tr EXCEPT ![1].ice = state]
  /\ Commit(OnIceChange(Agg, Closed, iceTransports, dtlsTransports, tr'))
  /\ ret' = NoRet
  /\ UNCHANGED <<slotVars, sctpVars, setVars, procVars, isClosed, listeners,
                 calls, closeCalls, budget>>

\* await iceTransport.start(...) returns in a __connect task.
ConnectIceStarted ==
  /\ connect.ice > 0
  /\ IceEnded(tr[1])
  /\ ConnectAfterIce([connect EXCEPT !.ice = @ - 1])
  /\ ret' = NoRet
  /\ UNCHANGED <<slotVars, sctpVars, setVars, setLocal, setRemote, addCand,
                 closer, closeWaiters, isClosed, listeners, calls, closeCalls, budget>>

\* RTCDtlsTransport: the handshake ends.
DtlsHandshaken(state) ==
  /\ tr[1].dtls = "connecting"
  /\ tr' = [tr EXCEPT ![1].dtls = state]
  /\ Commit(OnDtlsChange(Agg, Closed, iceTransports, dtlsTransports, tr'))
  /\ ret' = NoRet
  /\ UNCHANGED <<slotVars, sctpVars, setVars, procVars, isClosed, listeners,
                 calls, closeCalls, budget>>

\* RTCDtlsTransport: the remote party closes the DTLS connection.
DtlsClosedByPeer ==
  /\ tr[1].dtls = "connected"
  /\ tr' = [tr EXCEPT ![1].dtls = "closed"]
  /\ Commit(OnDtlsChange(Agg, Closed, iceTransports, dtlsTransports, tr'))
  /\ ret' = NoRet
  /\ UNCHANGED <<slotVars, sctpVars, setVars, procVars, isClosed, listeners,
                 calls, closeCalls, budget>>

\* await dtlsTransport.start(...) returns; the SCTP transport is started when
\* DTLS is connected.
ConnectDtlsStarted ==
  /\ connect.dtls > 0
  /\ DtlsEnded(tr[1])
  /\ connect' = IF tr[1].dtls = "connected"
                THEN [connect EXCEPT !.dtls = @ - 1, !.sctp = @ + 1]
                ELSE [connect EXCEPT !.dtls = @ - 1]
  /\ tr' = IF tr[1].dtls = "connected" THEN [tr EXCEPT ![1].sctpStarted = TRUE] ELSE tr
  /\ Commit(Agg)
  /\ ret' = NoRet
  /\ UNCHANGED <<slotVars, sctpVars, setVars, setLocal, setRemote, addCand,
                 closer, closeWaiters, isClosed, listeners, calls, closeCalls, budget>>

\* await self.__sctp.start(...) returns: the task ends.
ConnectSctpStarted ==
  /\ connect.sctp > 0
  /\ connect' = [connect EXCEPT !.sctp = @ - 1]
  /\ Commit(Agg)
  /\ ret' = NoRet
  /\ UNCHANGED <<slotVars, sctpVars, setVars, setLocal, setRemote, addCand,
                 closer, closeWaiters, isClosed, tr, listeners, calls, closeCalls, budget>>

\* ----------------------------------------------------------- specifications

\* What the application calls, with which arguments.
Api(dc, local, remote, candidates) ==
  \/ \E both \in dc : CreateDataChannel(both)
  \/ Close
  \/ CreateOffer
  \/ CreateAnswer
  \/ \E arg \in local : SetLocalDescription(arg)
  \/ \E d \in remote : SetRemoteDescription(d)
  \/ \E c \in candidates : AddIceCandidate(c)

\* What the event loop runs: suspended calls and tasks resuming, transports
\* changing state.
Loop ==
  \/ ImplicitClose
  \/ CloseDtlsStopped
  \/ CloseIceStopped
  \/ CloseWaiterReturn
  \/ GatherBegin
  \/ \E found \in BOOLEAN : GatherEnd(found)
  \/ SetLocalGathered
  \/ RemoteDtlsStopped
  \/ RemoteIceStopped
  \/ RemoteCandidatesAdded
  \/ CandidateForwarded
  \/ ConnectRun
  \/ \E state \in {"completed", "failed"} : IceChecked(state)
  \/ ConnectIceStarted
  \/ \E state \in {"connected", "failed"} : DtlsHandshaken(state)
  \/ DtlsClosedByPeer
  \/ ConnectDtlsStarted
  \/ ConnectSctpStarted

\* Any application, a short run.
Init == InitWith(MaxCalls)
Next ==
  \/ Api(BOOLEAN, LocalInputs, RemoteInputs, CandidateInputs)
  \/ Loop
Spec == Init /\ [][Next]_vars

\* The same application on an event loop that keeps running: a task created
\* by asyncio.ensure_future is started.
FairSpec == Spec /\ WF_vars(ImplicitClose)

\* An application that opens a data channel and negotiates it, with well
\* formed descriptions only, a longer run.
SessionRemote ==
  {In("offer", App(0, "auto")), In("offer", AudioApp("auto")),
   In("answer", App(0, "client")), In("answer", App(1, "client"))}
SessionInit == InitWith(MaxSessionCalls)
SessionNext ==
  \/ Api({FALSE}, {NoDesc}, SessionRemote, {NullCandidate})
  \/ Loop
SessionSpec == SessionInit /\ [][SessionNext]_vars

\* One peer of the two-peer exchange of the connect tests, the other peer
\* seen through the descriptions it sends.  pc1 opens a data channel, creates
\* an offer, sets it and later receives the answer; pc2 receives the offer,
\* creates an answer and sets it.  Each call is awaited before the next is
\* made, and close() is called once ICE has completed and SCTP has started.
\* The transports gather candidates, connect and handshake.
ExchangeOffers == {In("offer", App(0, r)) : r \in DtlsRoles}
ExchangeAnswers == {In("answer", App(0, r)) : r \in {"client", "server"}}
Awaited == setLocal.pc = "idle" /\ setRemote.pc = "idle"
Established == iceConnectionState = "completed" /\ tr[1].sctpStarted
Pc1Script ==
  \/ pc_states.peer = "pc1" /\ calls = 0 /\ CreateDataChannel(FALSE)
  \/ pc_states.peer = "pc1" /\ calls = 1 /\ CreateOffer
  \/ /\ pc_states.peer = "pc1" /\ calls = 2 /\ ret.op = "createOffer"
     /\ SetLocalDescription(ret.desc)
  \/ /\ pc_states.peer = "pc1" /\ calls = 3 /\ Awaited /\ LocalDescription # NoDesc
     /\ \E d \in ExchangeAnswers : SetRemoteDescription(d)
  \/ /\ pc_states.peer = "pc1" /\ calls = 4 /\ closeCalls = 0
     /\ Awaited /\ Established /\ Close
Pc2Script ==
  \/ /\ pc_states.peer = "pc2" /\ calls = 0
     /\ \E d \in ExchangeOffers : SetRemoteDescription(d)
  \/ /\ pc_states.peer = "pc2" /\ calls = 1 /\ Awaited /\ RemoteDescription # NoDesc
     /\ CreateAnswer
  \/ /\ pc_states.peer = "pc2" /\ calls = 2 /\ ret.op = "createAnswer"
     /\ SetLocalDescription(ret.desc)
  \/ /\ pc_states.peer = "pc2" /\ calls = 3 /\ closeCalls = 0
     /\ Awaited /\ Established /\ Close
ExchangeLoop ==
  \/ CloseDtlsStopped
  \/ CloseIceStopped
  \/ GatherBegin
  \/ GatherEnd(TRUE)
  \/ SetLocalGathered
  \/ RemoteCandidatesAdded
  \/ ConnectRun
  \/ IceChecked("completed")
  \/ ConnectIceStarted
  \/ DtlsHandshaken("connected")
  \/ ConnectDtlsStarted
  \/ ConnectSctpStarted
ExchangeInit == \E p \in {"pc1", "pc2"} : InitPeer(MaxExchangeCalls, p)
ExchangeNext == Pc1Script \/ Pc2Script \/ ExchangeLoop
ExchangeSpec == ExchangeInit /\ [][ExchangeNext]_vars

\* The application of SessionSpec, which may also cancel the task of a
\* suspended setLocalDescription or setRemoteDescription; a short run.
CancelInit == InitWith(MaxCalls)
CancelNext ==
  \/ Api({FALSE}, {NoDesc}, SessionRemote, {NullCandidate})
  \/ Loop
  \/ CancelSetLocal
  \/ CancelSetRemote
CancelSpec == CancelInit /\ [][CancelNext]_vars

\* The application of SessionSpec with a peer that may also offer an audio
\* and an application section without a BUNDLE group; a short run.
UnbundledOffer == Desc("offer", AudioApp("auto"), <<>>)
UnbundledInit == InitWith(MaxCalls)
UnbundledNext ==
  \/ Api({FALSE}, {NoDesc}, SessionRemote \cup {UnbundledOffer}, {NullCandidate})
  \/ Loop
UnbundledSpec == UnbundledInit /\ [][UnbundledNext]_vars

\* An application that opens no data channel and negotiates with a peer that
\* has none either: it sets the offers and answers it has just created, and
\* receives descriptions with no media section, in any order.  No call of
\* this application suspends, so the event loop has nothing to run.
NoMediaInit == InitPeer(MaxNoMediaCalls, "plain")
NoMediaNext ==
  \/ CreateOffer
  \/ CreateAnswer
  \/ ret.op \in {"createOffer", "createAnswer"} /\ ret.res = "ok"
       /\ SetLocalDescription(ret.desc)
  \/ \E type \in {"offer", "answer"} : SetRemoteDescription(In(type, <<>>))
  \/ Close
NoMediaSpec == NoMediaInit /\ [][NoMediaNext]_vars

\* The application of SessionSpec with a peer that may also be an ICE-lite
\* implementation: its offer carries a=ice-lite.
LiteOffer ==
  In("offer", <<[Section("application", 0, TRUE, TRUE, "auto") EXCEPT !.iceLite = TRUE]>>)
IceLiteInit == InitWith(MaxSessionCalls)
IceLiteNext ==
  \/ Api({FALSE}, {NoDesc}, SessionRemote \cup {LiteOffer}, {NullCandidate})
  \/ Loop
IceLiteSpec == IceLiteInit /\ [][IceLiteNext]_vars

\* The application of SessionSpec with a peer that may also offer an audio
\* section alone, so that a MID is seen before the SCTP transport has one.
AudioOffer == In("offer", <<Section("audio", 0, TRUE, TRUE, "auto")>>)
AudioInit == InitWith(MaxSessionCalls)
AudioNext ==
  \/ Api({FALSE}, {NoDesc}, SessionRemote \cup {AudioOffer}, {NullCandidate})
  \/ Loop
AudioSpec == AudioInit /\ [][AudioNext]_vars

\* The application of SessionSpec with a peer whose offer carries candidates
\* and the end-of-candidates attribute, and that trickles further candidates;
\* one of its offers has an audio and an application section in one BUNDLE
\* group.
FirstCandidate == Candidate(0, NoMid)
SecondCandidate == Candidate(NoMid, 0)
OfferWith(cands, complete) ==
  In("offer", <<[Section("application", 0, TRUE, TRUE, "auto")
                   EXCEPT !.cands = cands, !.complete = complete]>>)
BundledOfferWith(cands, complete) ==
  In("offer", <<Section("audio", 0, TRUE, TRUE, "auto"),
                [Section("application", 1, TRUE, TRUE, "auto")
                   EXCEPT !.cands = cands, !.complete = complete]>>)
CandidateOffers ==
  {OfferWith(<<>>, TRUE), OfferWith(<<FirstCandidate, SecondCandidate>>, TRUE),
   OfferWith(<<SecondCandidate, FirstCandidate>>, FALSE),
   BundledOfferWith(<<FirstCandidate, SecondCandidate>>, TRUE)}
CandidateInit == InitWith(MaxSessionCalls)
CandidateNext ==
  \/ Api({FALSE}, {NoDesc}, CandidateOffers,
         {NullCandidate, FirstCandidate, SecondCandidate})
  \/ Loop
  \/ RemoteCandidatesHanded
  \/ RemoteMarkerHanded
CandidateSpec == CandidateInit /\ [][CandidateNext]_vars

\* An application whose peer sends offers with candidates, one of them the
\* offer with a BUNDLE group; a short run.
CollapseOffers ==
  {OfferWith(<<>>, TRUE), OfferWith(<<FirstCandidate, SecondCandidate>>, TRUE),
   BundledOfferWith(<<FirstCandidate, SecondCandidate>>, TRUE)}
CollapseInit == InitWith(MaxCalls)
CollapseNext ==
  \/ Api({FALSE}, {NoDesc}, CollapseOffers, {NullCandidate})
  \/ Loop
  \/ RemoteCandidatesHanded
  \/ RemoteMarkerHanded
CollapseSpec == CollapseInit /\ [][CollapseNext]_vars

\* ------------------------------------------------------------------ claims

SetOps == {"setLocalDescription", "setRemoteDescription"}
InvalidStateErrors == {"InvalidStateError", ClosedError}

\* The rows of the transition table of the signalling state machine.
TableRow(op, from, type) ==
  \/ op = "setLocalDescription" /\ type = "offer"
       /\ from \in {"stable", "have-local-offer"}
  \/ op = "setLocalDescription" /\ type = "answer"
       /\ from \in {"have-remote-offer", "have-local-pranswer"}
  \/ op = "setRemoteDescription" /\ type = "offer"
       /\ from \in {"stable", "have-remote-offer"}
  \/ op = "setRemoteDescription" /\ type = "answer"
       /\ from \in {"have-local-offer", "have-remote-pranswer"}
TableTo(op, type) ==
  IF type = "answer" THEN "stable"
  ELSE IF op = "setLocalDescription" THEN "have-local-offer"
  ELSE "have-remote-offer"
\* The (from, to) pairs of the table's four set*Description rows.
TableMoves ==
  {<<"stable", "have-local-offer">>, <<"have-local-offer", "have-local-offer">>,
   <<"have-remote-offer", "stable">>, <<"have-local-pranswer", "stable">>,
   <<"stable", "have-remote-offer">>, <<"have-remote-offer", "have-remote-offer">>,
   <<"have-local-offer", "stable">>, <<"have-remote-pranswer", "stable">>}

EmitsSignaling(ev) ==
  \E i \in 1..Len(ev) : ev[i][1] = "signalingstatechange"

\* The change the table's row for op and type makes.
TableChange(op, type, from, to) ==
  TableRow(op, from, type) /\ to = TableTo(op, type)

\* C1: an accepted setLocalDescription / setRemoteDescription of an offer or
\* an answer was made in a From state of the table's row for it, and every
\* change of signalingState is either the change that row makes, made by the
\* call that is accepted (setLocalDescription makes it before it gathers,
\* setRemoteDescription as it returns), or the move to closed made by the
\* first close().
C1_TransitionTable ==
  [][/\ (ret'.op \in SetOps /\ ret'.res = "ok" /\ ret'.arg.type \in {"offer", "answer"})
          => TableRow(ret'.op, ret'.from, ret'.arg.type)
     /\ (signalingState' # signalingState)
          => \/ /\ ret'.op \in SetOps /\ ret'.res = "ok"
                /\ TableChange(ret'.op, ret'.arg.type, signalingState, signalingState')
             \/ /\ setLocal.pc = "idle" /\ setLocal'.pc = "gather"
                /\ TableChange("setLocalDescription", setLocal'.call.desc.type,
                               signalingState, signalingState')
             \/ signalingState' = "closed" /\ isClosed = "none" /\ isClosed' # "none"
    ]_vars

\* C2: a setLocalDescription / setRemoteDescription call with an SDP type of
\* offer, answer, pranswer or rollback, made in a signalling state that is
\* not a From state of the table's row for that operation and type, fails
\* with InvalidStateError.
C2_OffTableRejected ==
  (ret.op \in SetOps /\ ret.arg.type \in SdpTypes
     /\ ~TableRow(ret.op, ret.from, ret.arg.type))
    => ret.res \in InvalidStateErrors

\* C3: closed is terminal: once signalingState is closed it stays closed and
\* no signalingstatechange is emitted any more.
C3_ClosedTerminal ==
  [][signalingState = "closed"
       => signalingState' = "closed" /\ ~EmitsSignaling(emitted')]_vars

\* C4: when a close() call returns, signalingState, iceConnectionState and
\* connectionState are all closed, and once a close() has completed no
\* listener receives an event.
C4_ClosedAfterClose ==
  [][/\ (ret'.op = "close" /\ ret'.res = "ok")
          => /\ signalingState' = "closed"
             /\ iceConnectionState' = "closed"
             /\ connectionState' = "closed"
     /\ isClosed = "done" => delivered' = <<>>
    ]_vars

\* C5: close() is idempotent: signalingstatechange to closed is emitted by
\* the call that finds the latch unset and by no other, and that call sets the
\* latch for good; the
\* stop sequence is entered only by that call; and a close() call returns
\* only once the latch is resolved, that is once the first call has completed.
C5_CloseIdempotent ==
  [][/\ (\E i \in 1..Len(emitted') :
           emitted'[i] = Event("signalingstatechange", "closed"))
          => isClosed = "none" /\ isClosed' # "none"
     /\ (isClosed = "none" /\ isClosed' # "none")
          => emitted'[1] = Event("signalingstatechange", "closed")
     /\ (isClosed # "none") => (isClosed' # "none")
     /\ (closer' = "stopDtls" /\ closer # "stopDtls")
          => isClosed = "none" /\ closer = "none"
     /\ (closer # "none") => (closer' # "none")
     /\ (ret'.op = "close" /\ ret'.res = "ok") => isClosed' = "done"
    ]_vars
\* A second close() has returned after the first one ran the stop sequence.
C5_Witness ==
  /\ closeCalls = 2 /\ closeWaiters = 0 /\ closer = "done"
  /\ ret.op = "close" /\ ret.res = "ok"

\* C6: shutdown cannot fail: no close() call raises.
C6_CloseNeverRaises ==
  ret.op = "close" => ret.res = "ok"

\* C7: a createOffer, createAnswer or setLocalDescription call made after
\* close() was called fails with InvalidStateError("RTCPeerConnection is
\* closed"), a setRemoteDescription of an offer or an answer made after close()
\* was called fails with InvalidStateError, and the step in which such a call
\* fails changes neither the signalling state, the description slots, the
\* seen MIDs nor the transports.
C7_RejectedAfterClose ==
  [][/\ (ret'.closed /\ ret'.op \in {"createOffer", "createAnswer", "setLocalDescription"})
          => ret'.res = ClosedError
     /\ (ret'.closed /\ ret'.op = "setRemoteDescription"
           /\ ret'.arg.type \in {"offer", "answer"})
          => ret'.res \in InvalidStateErrors
     /\ (ret'.closed /\ ret'.res \in InvalidStateErrors)
          => UNCHANGED <<signalingState, slotVars, sctpVars, setVars, tr>>
    ]_vars

\* C8: createAnswer returns a description only when called with the
\* connection not closed and signalingState have-remote-offer or
\* have-local-pranswer; called in stable or have-local-offer it raises
\* InvalidStateError naming the state; called after close() it raises the
\* closed error whatever the signalling state.
C8_CreateAnswerStates ==
  ret.op = "createAnswer" =>
    /\ ret.res = "ok"
         => ~ret.closed /\ ret.from \in {"have-remote-offer", "have-local-pranswer"}
    /\ (~ret.closed /\ ret.from \in {"stable", "have-local-offer"})
         => ret.res = AnswerStateError(ret.from)
    /\ ret.closed => ret.res = ClosedError
\* createAnswer returned an answer with the application section.
C8_Witness ==
  /\ ret.op = "createAnswer" /\ ret.res = "ok"
  /\ ret.from = "have-remote-offer" /\ Len(ret.desc.media) = 1

ValidationErrors ==
  InvalidStateErrors \cup
  {"ValueError: ICE username fragment or password is missing",
   "ValueError: DTLS setup attribute must be 'active' or 'passive' for an answer",
   "ValueError: Media sections in answer do not match offer"}
Rejected(r) ==
  \/ r.op \in SetOps /\ r.res \in ValidationErrors
  \/ r.op = "addIceCandidate"
       /\ r.res = "ValueError: Candidate must have either sdpMid or sdpMLineIndex"
  \/ r.op = "createDataChannel"
       /\ r.res = "ValueError: Cannot specify both maxPacketLifeTime and maxRetransmits"

\* C9: a step in which setLocalDescription / setRemoteDescription raises from
\* validation, addIceCandidate raises for a candidate with neither sdpMid nor
\* sdpMLineIndex, or createDataChannel raises for maxPacketLifeTime given
\* with maxRetransmits, leaves signalingState, the four description slots,
\* the seen MIDs, the SCTP transport and the ICE / DTLS transport sets as
\* they were and emits no event.
C9_RejectedMutatesNothing ==
  [][Rejected(ret')
       => /\ UNCHANGED <<signalingState, slotVars, sctpVars, setVars, tr>>
          /\ emitted' = <<>>]_vars
\* setRemoteDescription was rejected for a missing ICE credential on a
\* connection that has an SCTP transport.
C9_Witness ==
  /\ Rejected(ret) /\ ret.op = "setRemoteDescription"
  /\ ret.res = "ValueError: ICE username fragment or password is missing"
  /\ sctp.exists

\* A description with ICE credentials in every section and, if an answer, a
\* DTLS role of client or server in every section.
WellFormed(d) ==
  \A i \in 1..Len(d.media) :
    /\ d.media[i].ufrag /\ d.media[i].pwd
    /\ d.type = "answer" => d.media[i].role \in {"client", "server"}
\* The descriptions accepted so far: those in the four slots and those of the
\* calls that passed validation and are suspended.
Accepted ==
  {pendingLocalDescription, currentLocalDescription,
   pendingRemoteDescription, currentRemoteDescription}
  \cup (IF setLocal.pc = "idle" THEN {} ELSE {setLocal.call.desc})
  \cup (IF setRemote.pc = "idle" THEN {} ELSE {setRemote.call.desc})
  \cup (IF ret.op \in SetOps /\ ret.res = "ok" THEN {ret.arg} ELSE {})

\* C10 as stated: every accepted description is well formed, and a
\* description that is not is rejected with ValueError.
C10_AsStated ==
  /\ \A d \in Accepted : WellFormed(d)
  /\ (ret.op \in SetOps /\ ~WellFormed(ret.arg))
       => ret.res \in ValidationErrors \ InvalidStateErrors
\* C10: every accepted description is well formed, and a description that is
\* not is rejected: with ValueError when the call was made on a connection
\* not closed (setLocalDescription) and in a signalling state
\* __validate_description allows for its type, with InvalidStateError
\* otherwise.
C10_WellFormedAccepted ==
  /\ \A d \in Accepted : WellFormed(d)
  /\ (ret.op \in SetOps /\ ~WellFormed(ret.arg))
       => IF ret.op = "setLocalDescription" /\ ret.closed
          THEN ret.res = ClosedError
          ELSE IF ~SignalingAllows(ret.arg.type, ret.op = "setLocalDescription",
                                   ret.from)
          THEN ret.res = "InvalidStateError"
          ELSE ret.res \in ValidationErrors \ InvalidStateErrors
\* setLocalDescription accepted an answer with an application section, now
\* the current local description.
C10_Witness ==
  /\ ret.op = "setLocalDescription" /\ ret.res = "ok"
  /\ ret.arg.type = "answer" /\ Len(ret.arg.media) = 1
  /\ currentLocalDescription.type = "answer"

\* The step in which a setLocalDescription / setRemoteDescription call is
\* made: it returns or raises in the step, or passes validation and suspends.
LocalCalled ==
  /\ calls' = calls + 1
  /\ ret'.op = "setLocalDescription" \/ (setLocal.pc = "idle" /\ setLocal'.pc # "idle")
RemoteCalled ==
  /\ calls' = calls + 1
  /\ ret'.op = "setRemoteDescription" \/ (setRemote.pc = "idle" /\ setRemote'.pc # "idle")
LocalGiven == IF ret'.op = "setLocalDescription" THEN ret'.arg ELSE setLocal'.call.desc
RemoteGiven == IF ret'.op = "setRemoteDescription" THEN ret'.arg ELSE setRemote'.call.desc
LocalOutcome == IF ret'.op = "setLocalDescription" THEN ret'.res ELSE "ok"
RemoteOutcome == IF ret'.op = "setRemoteDescription" THEN ret'.res ELSE "ok"

\* The offer a remote answer answers: the active local description, and
\* while the setLocalDescription call that made the state have-local-offer
\* is still gathering, the offer that call was given.
OfferAnswered ==
  IF LocalDescription # NoDesc THEN LocalDescription
  ELSE IF setLocal.pc # "idle" THEN setLocal.call.desc
  ELSE NoDesc
MismatchError == "ValueError: Media sections in answer do not match offer"

\* C11: an answer accepted by setLocalDescription has the (kind, MID)
\* sequence of the active remote description, one accepted by
\* setRemoteDescription that of the active local description; and an answer
\* that passes the checks made before the comparison (closed, signalling
\* state, ICE credentials, DTLS role) and whose sequence differs from that of
\* the offer it answers is rejected with ValueError("Media sections in answer
\* do not match offer").
C11_AnswerMatchesOffer ==
  [][/\ (LocalCalled /\ LocalGiven.type = "answer")
          => /\ LocalOutcome = "ok"
                  => /\ RemoteDescription # NoDesc
                     /\ KindMid(LocalGiven.media) = KindMid(RemoteDescription.media)
             /\ (/\ ~Closed
                 /\ SignalingAllows("answer", TRUE, signalingState)
                 /\ WellFormed(LocalGiven)
                 /\ RemoteDescription # NoDesc
                 /\ KindMid(LocalGiven.media) # KindMid(RemoteDescription.media))
                  => LocalOutcome = MismatchError
     /\ (RemoteCalled /\ RemoteGiven.type = "answer")
          => /\ RemoteOutcome = "ok"
                  => /\ LocalDescription # NoDesc
                     /\ KindMid(RemoteGiven.media) = KindMid(LocalDescription.media)
             /\ (/\ SignalingAllows("answer", FALSE, signalingState)
                 /\ WellFormed(RemoteGiven)
                 /\ OfferAnswered # NoDesc
                 /\ KindMid(RemoteGiven.media) # KindMid(OfferAnswered.media))
                  => RemoteOutcome = MismatchError
    ]_vars

\* The aggregate states as the claims give them.
ExpectedGathering(S) ==
  IF S # {} /\ (\A x \in S : x = "completed") THEN "complete"
  ELSE IF \E x \in S : x = "gathering" THEN "gathering"
  ELSE "new"
ExpectedIce(closed, S) ==
  IF closed THEN "closed"
  ELSE IF \E x \in S : x = "failed" THEN "failed"
  ELSE IF S # {} /\ (\A x \in S : x = "completed") THEN "completed"
  ELSE IF \E x \in S : x = "checking" THEN "checking"
  ELSE "new"
ExpectedConnection(closed, I, D) ==
  IF closed THEN "closed"
  ELSE IF \E x \in I \cup D : x = "failed" THEN "failed"
  ELSE IF (\A x \in I : x \in {"new", "closed"}) /\ (\A x \in D : x \in {"new", "closed"})
    THEN "new"
  ELSE IF (\E x \in I : x = "checking") \/ (\E x \in D : x = "connecting")
    THEN "connecting"
  ELSE IF \E x \in D : x = "new" THEN "connecting"
  ELSE "connected"

\* A step that changes the state of a tracked transport or the tracked sets,
\* or that resolves the close latch: each recomputes the aggregate states.
IceChanged ==
  \/ iceTransports' # iceTransports
  \/ \E x \in iceTransports : tr'[x].ice # tr[x].ice
DtlsChanged ==
  \/ dtlsTransports' # dtlsTransports
  \/ \E x \in dtlsTransports : tr'[x].dtls # tr[x].dtls
LatchResolved == isClosed # "done" /\ isClosed' = "done"

\* C12: iceGatheringState is always the claim's function of the gatherer
\* states of the tracked ICE transports (complete: at least one and all
\* completed; gathering: some gathering; new otherwise), and never closed.
C12_IceGatheringState ==
  /\ iceGatheringState = ExpectedGathering(GathererStates(iceTransports, tr))
  /\ iceGatheringState # "closed"
  /\ iceTransports = {} => iceGatheringState = "new"
\* Gathering has completed on the tracked transport.
C12_Witness ==
  iceTransports # {} /\ tr[1].gatherer = "completed" /\ iceGatheringState = "complete"

\* C13: whenever iceConnectionState is recomputed (an ICE transport changed
\* state, the tracked set changed, the close latch was resolved, or the value
\* changed) it is the claim's function of the closed latch and the ICE states.
C13_IceConnectionState ==
  [][(IceChanged \/ LatchResolved \/ iceConnectionState' # iceConnectionState)
       => iceConnectionState' =
            ExpectedIce(isClosed' # "none", IceStates(iceTransports', tr'))]_vars
\* The connectivity checks have completed on a connection not closed.
C13_Witness ==
  isClosed = "none" /\ tr[1].ice = "completed" /\ iceConnectionState = "completed"

\* C14: whenever connectionState is recomputed (an ICE or DTLS transport
\* changed state, the tracked sets changed, the close latch was resolved, or
\* the value changed) it is the claim's function of the closed latch, the ICE
\* states and the DTLS states; connected is never the value while a tracked
\* DTLS transport is new.
C14_ConnectionState ==
  [][/\ (IceChanged \/ DtlsChanged \/ LatchResolved
           \/ connectionState' # connectionState)
          => connectionState' =
               ExpectedConnection(isClosed' # "none", IceStates(iceTransports', tr'),
                                  DtlsStates(dtlsTransports', tr'))
     /\ (connectionState' = "connected")
          => \A x \in dtlsTransports' : tr'[x].dtls # "new"
    ]_vars
\* ICE has completed while the DTLS transport is still new: connecting.
C14_Witness ==
  /\ isClosed = "none" /\ tr[1].ice = "completed" /\ tr[1].dtls = "new"
  /\ connectionState = "connecting"

\* The events of one kind emitted in a step, in order, each differ from the
\* value before it (the first from the stored value), and the last is the
\* value stored after the step; with no event the stored value is unchanged.
EventChain(kind, old, new, ev) ==
  LET I == {i \in 1..Len(ev) : ev[i][1] = kind}
      before(i) == IF \E j \in I : j < i
                   THEN ev[CHOOSE j \in I : j < i /\ \A k \in I : k < i => k <= j][2]
                   ELSE old
  IN  /\ \A i \in I : ev[i][2] # before(i)
      /\ new = before(Len(ev) + 1)

\* C15: a recomputation emits the statechange event of an aggregate state
\* once when the computed value differs from the stored one and not at all
\* when it is equal: two consecutive events of a kind never carry the same
\* value.
C15_EmitOnChangeOnly ==
  [][/\ EventChain("icegatheringstatechange", iceGatheringState,
                   iceGatheringState', emitted')
     /\ EventChain("iceconnectionstatechange", iceConnectionState,
                   iceConnectionState', emitted')
     /\ EventChain("connectionstatechange", connectionState,
                   connectionState', emitted')
    ]_vars
\* A step emitted connectionstatechange for connected.
C15_Witness ==
  /\ \E i \in 1..Len(emitted) : emitted[i] = Event("connectionstatechange", "connected")
  /\ connectionState = "connected"

\* C16: a recomputation of connectionState on a connection not closed that
\* finds a DTLS transport and every DTLS transport closed leaves close()
\* scheduled; close() is scheduled only by such a recomputation (never with no
\* DTLS transport, never on a closed connection) and at most once, the task
\* being kept for good; once scheduled, signalingState eventually is closed.
C16_ScheduledWhen ==
  /\ ( /\ IceChanged \/ DtlsChanged
       /\ isClosed' = "none"
       /\ DtlsStates(dtlsTransports', tr') = {"closed"} )
       => closeTask' # "none"
  /\ (closeTask = "none" /\ closeTask' # "none")
       => /\ closeTask' = "scheduled"
          /\ isClosed = "none"
          /\ dtlsTransports' # {}
          /\ \A x \in dtlsTransports' : tr'[x].dtls = "closed"
  /\ closeTask # "none" => closeTask' # "none"
  /\ closeTask = "started" => closeTask' = "started"
C16_RemoteShutdown ==
  /\ [][C16_ScheduledWhen]_vars
  /\ (closeTask = "scheduled" /\ isClosed = "none") ~> (signalingState = "closed")
\* The peer closed the DTLS transport and the scheduled close() has run.
C16_Witness ==
  /\ closeTask = "started" /\ closeCalls = 0
  /\ signalingState = "closed" /\ tr[1].dtls = "closed"
  /\ dtlsTransports = {1} /\ ~sctp.bundled

\* C19: addIceCandidate(None) returning while no remote description is set
\* returns normally, whether or not an SCTP transport exists.
C19_NullCandidateNoRemote ==
  ( /\ ret.op = "addIceCandidate" /\ ret.cand.null
    /\ pendingRemoteDescription = NoDesc /\ currentRemoteDescription = NoDesc )
    => ret.res = "ok"

\* The media sections after a candidate is mirrored, as the claim gives them.
ExpectedMirror(media, c) ==
  [k \in 1..Len(media) |->
     IF c.null THEN [media[k] EXCEPT !.complete = TRUE]
     ELSE IF (c.sdpMLineIndex # NoMid /\ c.sdpMLineIndex = k - 1)
             \/ (c.sdpMid # NoMid /\ c.sdpMid = media[k].mid)
          THEN [media[k] EXCEPT !.cands = Append(media[k].cands, c)]
          ELSE media[k]]

\* C20: an addIceCandidate that returns normally has changed the active remote
\* description (pending if present, else current) and nothing else of the
\* two: a candidate is appended to the sections whose index is its
\* sdpMLineIndex or whose MID is its sdpMid and to no other; a null candidate
\* marks every section complete and appends nothing.
C20_Mirror ==
  [][(ret'.op = "addIceCandidate" /\ ret'.res = "ok")
       => IF pendingRemoteDescription # NoDesc
          THEN /\ pendingRemoteDescription' =
                    [pendingRemoteDescription EXCEPT
                       !.media = ExpectedMirror(pendingRemoteDescription.media, ret'.cand)]
               /\ currentRemoteDescription' = currentRemoteDescription
          ELSE /\ currentRemoteDescription # NoDesc
               /\ currentRemoteDescription' =
                    [currentRemoteDescription EXCEPT
                       !.media = ExpectedMirror(currentRemoteDescription.media, ret'.cand)]
               /\ pendingRemoteDescription' = NoDesc
    ]_vars
\* A candidate given by MID was appended to the section of that MID.
C20_Witness ==
  /\ ret.op = "addIceCandidate" /\ ret.res = "ok" /\ ~ret.cand.null
  /\ ret.cand.sdpMid # NoMid
  /\ \E k \in 1..Len(RemoteDescription.media) :
       /\ RemoteDescription.media[k].mid = ret.cand.sdpMid
       /\ Len(RemoteDescription.media[k].cands) > 0
       /\ RemoteDescription.media[k].cands[Len(RemoteDescription.media[k].cands)] = ret.cand

\* What track_states has recorded for one state variable: the value at the
\* start, then the value of every event of the kind received.
RECURSIVE ValuesOf(_, _)
ValuesOf(kind, ev) ==
  IF ev = <<>> THEN <<>>
  ELSE (IF Head(ev)[1] = kind THEN <<Head(ev)[2]>> ELSE <<>>) \o ValuesOf(kind, Tail(ev))
Observed(kind, first) == <<first>> \o ValuesOf(kind, pc_states.ev)
IsPrefix(p, q) == Len(p) <= Len(q) /\ \A i \in 1..Len(p) : p[i] = q[i]
ExpectedSignaling ==
  <<"stable",
    IF pc_states.peer = "pc1" THEN "have-local-offer" ELSE "have-remote-offer",
    "stable", "closed">>

\* C17: in the two-peer exchange each peer's recorded sequences are, at every
\* moment, the beginning of the expected sequences (so no state is repeated
\* and none goes backwards), and once close() has returned they are exactly
\* the expected sequences.
C17_ExchangeSequences ==
  LET sig == Observed("signalingstatechange", "stable")
      ice == Observed("iceconnectionstatechange", "new")
      con == Observed("connectionstatechange", "new")
      gat == Observed("icegatheringstatechange", "new")
  IN  /\ IsPrefix(sig, ExpectedSignaling)
      /\ IsPrefix(ice, <<"new", "checking", "completed", "closed">>)
      /\ IsPrefix(con, <<"new", "connecting", "connected", "closed">>)
      /\ IsPrefix(gat, <<"new", "gathering", "complete">>)
      /\ isClosed = "done"
           => /\ sig = ExpectedSignaling
              /\ ice = <<"new", "checking", "completed", "closed">>
              /\ con = <<"new", "connecting", "connected", "closed">>
              /\ gat = <<"new", "gathering", "complete">>
\* close() has returned on pc1 after the whole exchange.
C17_Witness ==
  /\ pc_states.peer = "pc1" /\ isClosed = "done" /\ calls = 4
  /\ Observed("connectionstatechange", "new") = <<"new", "connecting", "connected", "closed">>

Opposite(role) == IF role = "client" THEN "server" ELSE "client"
\* The DTLS role of the application section of a description.
RoleIn(d) == d.media[1].role

\* C18: in the exchange, for every DTLS role the offer carries, the answer
\* createAnswer returns never carries the role auto and carries client unless
\* the offer carried client, when it carries server; once the answer is set
\* the answerer's transport has the role of its answer and the offerer's
\* transport the opposite of the role in the answer it received: one peer is
\* client and the other server.
C18_OppositeRoles ==
  /\ (ret.op = "createAnswer" /\ ret.res = "ok")
       => /\ \A k \in 1..Len(ret.desc.media) : ret.desc.media[k].role # "auto"
          /\ RoleIn(ret.desc) =
               IF RoleIn(RemoteDescription) = "client" THEN "server" ELSE "client"
  /\ (pc_states.peer = "pc2" /\ currentLocalDescription # NoDesc)
       => /\ tr[1].role = RoleIn(currentLocalDescription)
          /\ tr[1].role \in {"client", "server"}
          /\ RoleIn(RemoteDescription) # "auto"
               => tr[1].role = Opposite(RoleIn(RemoteDescription))
  /\ (pc_states.peer = "pc1" /\ currentRemoteDescription # NoDesc)
       => tr[1].role = Opposite(RoleIn(currentRemoteDescription))
\* The answerer of an offer that carries client holds the role server once
\* the connection is established.
C18_Witness ==
  /\ pc_states.peer = "pc2" /\ Established
  /\ currentLocalDescription # NoDesc
  /\ RoleIn(RemoteDescription) = "client"
  /\ RoleIn(currentLocalDescription) = "server" /\ tr[1].role = "server"

\* A step in which addIceCandidate hands its candidate to the ICE transport
\* of the SCTP transport.
Forwards == addCand.pc = "idle" /\ addCand'.pc = "forward"
\* The candidate designates the SCTP section: an identifier it carries equals
\* the SCTP MID or the SCTP m-line index.
DesignatesSctp(c) ==
  \/ c.sdpMid # NoMid /\ c.sdpMid = sctp.mid
  \/ c.sdpMLineIndex # NoMid /\ c.sdpMLineIndex = sctp_mline_index

\* C21: a candidate is forwarded to the ICE transport of the SCTP transport
\* only when that transport is not bundled and the candidate is null or
\* designates the SCTP section by an identifier it carries.
C21_ForwardOnlyDesignated ==
  [][Forwards => /\ ~sctp.bundled
                 /\ addCand'.cand.null \/ DesignatesSctp(addCand'.cand)]_vars

\* The signalling states the tracking application has been told of.
SignalingSeen == ValuesOf("signalingstatechange", pc_states.ev)
\* The calls of the exchange without media, seen from the peer that offers
\* (createOffer, setLocalDescription, setRemoteDescription(answer), close) and
\* from the peer that answers (setRemoteDescription(offer), createAnswer,
\* setLocalDescription, close): each is made in the state the calls before it
\* have left, returns normally and leaves the state the next call is made in.
Exchanging(n, seen) ==
  calls = n /\ closeCalls = 0 /\ isClosed = "none" /\ SignalingSeen = seen
Returned(op, n, seen) ==
  /\ ret'.op = op /\ ret'.res = "ok"
  /\ calls' = n /\ SignalingSeen' = seen
OffererSteps ==
  /\ (Exchanging(0, <<>>) /\ calls' = 1 /\ ret'.op = "createOffer")
       => Returned("createOffer", 1, <<>>) /\ ret'.desc.media = <<>>
  /\ (Exchanging(1, <<>>) /\ ret.op = "createOffer" /\ calls' = 2
        /\ ret'.op = "setLocalDescription")
       => Returned("setLocalDescription", 2, <<"have-local-offer">>)
  /\ (Exchanging(2, <<"have-local-offer">>) /\ calls' = 3
        /\ ret'.op = "setRemoteDescription" /\ ret'.arg.type = "answer")
       => /\ Returned("setRemoteDescription", 3, <<"have-local-offer", "stable">>)
          /\ signalingState' = "stable"
  /\ (Exchanging(3, <<"have-local-offer", "stable">>) /\ closeCalls' = 1)
       => /\ ret'.op = "close" /\ ret'.res = "ok" /\ isClosed' = "done"
          /\ signalingState = "stable"
AnswererSteps ==
  /\ (Exchanging(0, <<>>) /\ calls' = 1
        /\ ret'.op = "setRemoteDescription" /\ ret'.arg.type = "offer")
       => Returned("setRemoteDescription", 1, <<"have-remote-offer">>)
  /\ (Exchanging(1, <<"have-remote-offer">>) /\ calls' = 2 /\ ret'.op = "createAnswer")
       => Returned("createAnswer", 2, <<"have-remote-offer">>) /\ ret'.desc.media = <<>>
  /\ (Exchanging(2, <<"have-remote-offer">>) /\ ret.op = "createAnswer" /\ calls' = 3
        /\ ret'.op = "setLocalDescription")
       => /\ Returned("setLocalDescription", 3, <<"have-remote-offer", "stable">>)
          /\ signalingState' = "stable"
  /\ (Exchanging(3, <<"have-remote-offer", "stable">>) /\ closeCalls' = 1)
       => /\ ret'.op = "close" /\ ret'.res = "ok" /\ isClosed' = "done"
          /\ signalingState = "stable"
NoTransports == iceTransports = {} /\ dtlsTransports = {} /\ ~sctp.exists

\* C22: without a data channel and with descriptions that have no media
\* section, every call of the offer/answer exchange returns normally on the
\* offering and on the answering side, each side is stable when close() is
\* called, and no ICE, DTLS or SCTP transport is ever created.
C22_NoMediaExchange ==
  [][OffererSteps /\ AnswererSteps /\ NoTransports']_vars
\* The offering side has gone through the whole exchange and closed.
C22_Witness ==
  /\ calls = 3 /\ closeCalls = 1 /\ isClosed = "done" /\ NoTransports
  /\ SignalingSeen = <<"have-local-offer", "stable", "closed">>
  /\ currentRemoteDescription = In("answer", <<>>)

\* The description d as a slot holds it: the type and the sections of the
\* description the call was given.
Holds(slot, d) ==
  slot # NoDesc /\ slot.type = d.type /\ KindMid(slot.media) = KindMid(d.media)
StoredBy(op, pending, current, pendingAfter, currentAfter) ==
  (ret'.op = op /\ ret'.res = "ok")
    => /\ ret'.arg.type = "offer"
            => Holds(pendingAfter, ret'.arg) /\ currentAfter = current
       /\ ret'.arg.type = "answer"
            => Holds(currentAfter, ret'.arg) /\ pendingAfter = NoDesc

\* C23: an accepted offer is stored in the pending slot of its side and
\* leaves the current slot alone; an accepted answer is stored in the current
\* slot of its side and clears the pending slot of that side; the description
\* of a side is its pending description if there is one, else its current one.
C23_Slots ==
  [][/\ StoredBy("setLocalDescription", pendingLocalDescription,
                 currentLocalDescription, pendingLocalDescription',
                 currentLocalDescription')
     /\ StoredBy("setRemoteDescription", pendingRemoteDescription,
                 currentRemoteDescription, pendingRemoteDescription',
                 currentRemoteDescription')
     /\ LocalDescription' =
          IF pendingLocalDescription' # NoDesc THEN pendingLocalDescription'
          ELSE currentLocalDescription'
     /\ RemoteDescription' =
          IF pendingRemoteDescription' # NoDesc THEN pendingRemoteDescription'
          ELSE currentRemoteDescription'
    ]_vars
\* A local answer with an application section has been accepted.
C23_Witness ==
  /\ ret.op = "setLocalDescription" /\ ret.res = "ok" /\ ret.arg.type = "answer"
  /\ Len(ret.arg.media) = 1
  /\ Holds(currentLocalDescription, ret.arg) /\ pendingLocalDescription = NoDesc

\* C24: when an accepted answer, local or remote, has returned signalingState
\* to stable, neither pending slot is set and each side's description is its
\* current one.
C24_AnswerClearsPending ==
  ( /\ ret.op \in {"setLocalDescription", "setRemoteDescription"}
    /\ ret.res = "ok" /\ ret.arg.type = "answer" /\ signalingState = "stable" )
    => /\ pendingLocalDescription = NoDesc /\ pendingRemoteDescription = NoDesc
       /\ LocalDescription = currentLocalDescription
       /\ RemoteDescription = currentRemoteDescription

\* The signalling state an accepted description of the type leads to.
TargetState(op, type) ==
  IF type = "answer" THEN "stable"
  ELSE IF op = "setLocalDescription" THEN "have-local-offer"
  ELSE "have-remote-offer"
\* The slot an accepted description of the type is stored in.
SlotOf(op, type) ==
  IF op = "setLocalDescription"
  THEN (IF type = "answer" THEN currentLocalDescription ELSE pendingLocalDescription)
  ELSE (IF type = "answer" THEN currentRemoteDescription ELSE pendingRemoteDescription)

\* C25: when a setLocalDescription or setRemoteDescription call given an
\* offer or an answer has raised (validation failed, a later step failed or
\* the call was cancelled at a suspension point), signalingState is not the
\* state of the call's description unless the slot holds that description.
C25_AllOrNothing ==
  ( /\ ret.op \in {"setLocalDescription", "setRemoteDescription"}
    /\ ret.res # "ok"
    /\ ret.arg.type \in {"offer", "answer"}
    /\ ret.from # TargetState(ret.op, ret.arg.type)
    /\ signalingState = TargetState(ret.op, ret.arg.type) )
    => Holds(SlotOf(ret.op, ret.arg.type), ret.arg)

\* C26: once the MID of the SCTP transport is set it never changes.
C26_SctpMidStable ==
  [][sctp.mid # NoMid => sctp'.mid = sctp.mid]_vars

\* C27: the media sections of a description createOffer or createAnswer
\* returns have pairwise distinct MIDs.
C27_DistinctMids ==
  (ret.op \in {"createOffer", "createAnswer"} /\ ret.res = "ok")
    => \A i, j \in 1..Len(ret.desc.media) :
         i # j => ret.desc.media[i].mid # ret.desc.media[j].mid

\* C28: when setRemoteDescription has applied a description whose BUNDLE
\* group has the SCTP section as a member other than the first, one ICE
\* transport and one DTLS transport are tracked and the SCTP transport is
\* bound to that DTLS transport.
C28_BundleKeepsPrimary ==
  ( /\ ret.op = "setRemoteDescription" /\ ret.res = "ok"
    /\ sctp.exists /\ sctp.mid \in BundleItems(ret.arg) )
    => /\ Cardinality(iceTransports) = 1
       /\ Cardinality(dtlsTransports) = 1
       /\ sctp.transport \in dtlsTransports

\* C29: signalingState is stable, have-local-offer, have-remote-offer or
\* closed in every reachable state; have-local-pranswer and
\* have-remote-pranswer are never entered.
C29_NoPranswerState ==
  signalingState \in {"stable", "have-local-offer", "have-remote-offer", "closed"}
\* A provisional answer was accepted after an offer of the other side.
C29_Witness ==
  /\ ret.op \in {"setLocalDescription", "setRemoteDescription"}
  /\ ret.res = "ok" /\ ret.arg.type = "pranswer"
  /\ ret.from \in {"have-local-offer", "have-remote-offer"}

\* C30: close() stops the SCTP transport before the DTLS transport and the
\* ICE transport: when close() begins to await the stop of the DTLS
\* transport, an SCTP transport that was started has been stopped.
C30_StopsSctpFirst ==
  [][(closer # "stopDtls" /\ closer' = "stopDtls")
       => \A x \in Transports : ~tr'[x].sctpStarted]_vars

\* C31 as stated: the step in which close() recomputes the aggregate states
\* and resolves the latch leaves iceGatheringState, iceConnectionState and
\* connectionState all closed.
C31_AsStated ==
  [][LatchResolved
       => /\ iceGatheringState' = "closed"
          /\ iceConnectionState' = "closed"
          /\ connectionState' = "closed"]_vars
\* C31: the step in which close() recomputes the aggregate states and
\* resolves the latch leaves iceConnectionState and connectionState closed;
\* iceGatheringState is recomputed from the gatherer states of the tracked
\* ICE transports (new, gathering or complete) and is not closed.
C31_CloseRecomputes ==
  [][LatchResolved
       => /\ iceConnectionState' = "closed"
          /\ connectionState' = "closed"
          /\ iceGatheringState' = ExpectedGathering(GathererStates(iceTransports', tr'))
          /\ iceGatheringState' # "closed"]_vars
\* close() has completed on a connection whose transport had gathered its
\* candidates: the gathering state is still complete.
C31_Witness ==
  /\ isClosed = "done" /\ closer = "done" /\ sctp.exists
  /\ iceConnectionState = "closed" /\ connectionState = "closed"
  /\ iceGatheringState = "complete"

\* A step in which a __connect task calls start on the ICE transport, on the
\* DTLS transport, on the SCTP transport: the task goes on to await the call.
IceStartCalled == connect'.ice = connect.ice + 1
DtlsStartCalled == connect'.dtls = connect.dtls + 1
SctpStartCalled == connect'.sctp = connect.sctp + 1

\* C32: the connect driver starts the ICE transport only when its gatherer
\* has a local candidate and the remote ICE parameters are known; it starts
\* the DTLS transport only in the step in which the awaited ICE start call
\* of the same task returns, and only when the DTLS transport is new; it
\* starts the SCTP transport only when the DTLS transport is connected.
C32_StartupOrder ==
  [][/\ IceStartCalled
          => SctpUsable /\ remoteIce /\ tr[sctp.transport].localCands
     /\ DtlsStartCalled
          => /\ connect.ice > 0 /\ connect'.ice = connect.ice - 1
             /\ tr[1].iceStarted
             /\ tr[1].dtls = "new"
     /\ SctpStartCalled
          => /\ tr[1].dtls = "connected"
             /\ tr[1].iceStarted
    ]_vars
\* The three start calls have been made and returned: ICE has completed, DTLS
\* is connected, the SCTP transport is started.
C32_Witness ==
  /\ tr[1].iceStarted /\ tr[1].ice = "completed" /\ tr[1].dtls = "connected"
  /\ tr[1].sctpStarted
  /\ connect = [scheduled |-> 0, ice |-> 0, dtls |-> 0, sctp |-> 0]

\* C33: the connect driver, run repeatedly or by overlapping tasks, calls
\* start on a transport only if no start call was made on it before: on the
\* ICE transport, on the DTLS transport (it is new until its start is
\* called), on the SCTP transport.
C33_NoSecondStart ==
  [][/\ IceStartCalled => ~tr[1].iceStarted
     /\ DtlsStartCalled => tr[1].dtls = "new"
     /\ SctpStartCalled => ~tr[1].sctpStarted
    ]_vars

\* A step that applies a local offer: setLocalDescription emits the move to
\* have-local-offer before anything else it does.
LocalOfferApplied ==
  Len(emitted') > 0 /\ emitted'[1] = Event("signalingstatechange", "have-local-offer")
\* A step in which setRemoteDescription passes validation with an offer and
\* runs its apply loop.
RemoteOfferApplied ==
  RemoteCalled /\ RemoteOutcome = "ok" /\ RemoteGiven.type = "offer"
\* The first application section of the offer, whose ICE transport is the
\* one of the SCTP transport.
FirstApp(d) == d.media[MinOf(AppSections(d.media))]

\* C34: the ICE role of a transport is assigned at most once.  A step that
\* applies a local offer leaves every tracked ICE transport with its role
\* set, controlling if it was not set before; a step that applies a remote
\* offer with an application section leaves the ICE transport of that section
\* with its role set, controlling iff the section is ice-lite if it was not
\* set before; the role is set by such steps only, and once it is set neither
\* the flag nor the controlling choice changes.
C34_IceRoleOnce ==
  [][\A x \in Transports :
       /\ tr[x].roleSet
            => tr'[x].roleSet /\ tr'[x].controlling = tr[x].controlling
       /\ (LocalOfferApplied /\ x \in iceTransports)
            => tr'[x].roleSet /\ (~tr[x].roleSet => tr'[x].controlling)
       /\ (RemoteOfferApplied /\ AppSections(RemoteGiven.media) # {}
             /\ sctp'.transport = x /\ ~sctp'.bundled)
            => /\ tr'[x].roleSet
               /\ ~tr[x].roleSet
                    => tr'[x].controlling = FirstApp(RemoteGiven).iceLite
       /\ (~tr[x].roleSet /\ tr'[x].roleSet)
            => \/ LocalOfferApplied /\ x \in iceTransports
               \/ RemoteOfferApplied /\ AppSections(RemoteGiven.media) # {}
    ]_vars
\* A local offer was accepted on a transport whose role a remote offer that
\* was not ice-lite had set: the transport is still controlled.
C34_Witness ==
  /\ ret.op = "setLocalDescription" /\ ret.res = "ok" /\ ret.arg.type = "offer"
  /\ Len(ret.arg.media) = 1
  /\ iceTransports = {1} /\ tr[1].roleSet /\ ~tr[1].controlling

\* The sections of an offer as the claim gives them, as (kind, MID) pairs:
\* the application sections of the active local description, index by index,
\* with the active remote description standing in where the local one has no
\* section, then a new one when the SCTP transport has no MID.
SectionAt(i) ==
  IF i <= Len(LocalDescription.media) THEN LocalDescription.media[i]
  ELSE RemoteDescription.media[i]
RECURSIVE KeptSections(_, _)
KeptSections(i, n) ==
  IF i > n THEN <<>>
  ELSE (IF SectionAt(i).kind = "application"
        THEN <<(<<"application", SectionAt(i).mid>>)>> ELSE <<>>)
       \o KeptSections(i + 1, n)
LowestUnseen ==
  CHOOSE i \in 0..Cardinality(seenMids) : i \notin seenMids /\ \A j \in 0..(i - 1) : j \in seenMids
ExpectedOfferSections ==
  KeptSections(1, Max(Len(LocalDescription.media), Len(RemoteDescription.media)))
  \o (IF sctp.exists /\ sctp.mid = NoMid
      THEN <<(<<"application", LowestUnseen>>)>> ELSE <<>>)

\* C35: a description createOffer returns is an offer whose sections are, in
\* order, the application sections kept from the active descriptions with
\* their MIDs, then one new application section iff an SCTP transport exists
\* and has no MID, its MID the lowest non-negative integer not seen; its
\* BUNDLE group lists the MIDs of its sections in order; createOffer leaves
\* the set of seen MIDs as it was.
C35_OfferSections ==
  [][(ret'.op = "createOffer")
       => /\ seenMids' = seenMids
          /\ ret'.res = "ok"
               => /\ ret'.desc.type = "offer"
                  /\ KindMid(ret'.desc.media) = ExpectedOfferSections
                  /\ ret'.desc.bundle = MidsOf(ret'.desc.media)
    ]_vars
\* createOffer gave the new application section the MID 1, MID 0 having been
\* seen in a remote audio section.
C35_Witness ==
  /\ ret.op = "createOffer" /\ ret.res = "ok"
  /\ seenMids = {0} /\ sctp.exists /\ sctp.mid = NoMid
  /\ KindMid(ret.desc.media) = <<(<<"application", 1>>)>>
  /\ ret.desc.bundle = <<1>>

\* p is q with some elements left out: the elements of p appear in q in the
\* order of p.
RECURSIVE IsSubSeq(_, _)
IsSubSeq(p, q) ==
  IF p = <<>> THEN TRUE
  ELSE IF q = <<>> THEN FALSE
  ELSE IF Head(p) = Head(q) THEN IsSubSeq(Tail(p), Tail(q))
  ELSE IsSubSeq(p, Tail(q))
\* What a remote description has the ICE transport receive: the candidates of
\* its section, then the end-of-candidates marker if the section is complete.
Dispatched(d) ==
  IceSection(d).cands \o (IF IceSection(d).complete THEN <<NullCandidate>> ELSE <<>>)
\* The step in which an addIceCandidate call is made.
CandidateCalled == calls' = calls + 1 /\ (ret'.op = "addIceCandidate" \/ Forwards)

\* C36: what the ICE transport has received only grows at its end; a
\* candidate addIceCandidate forwards is received in the step in which the
\* call is made, so successive calls are received in call order; the
\* candidates of a remote description are received together, in the order of
\* its section; its end-of-candidates marker is received in a later step,
\* when the section is complete and its candidates have been received; and
\* when setRemoteDescription returns, its candidates and then its marker are
\* among what was received, in that order.
C36_SubmissionOrder ==
  [][/\ \A x \in Transports : IsPrefix(tr[x].handed, tr'[x].handed)
     /\ Forwards
          => /\ CandidateCalled
             /\ tr'[1].handed = Append(tr[1].handed, addCand'.cand)
     /\ (tr'[1].handed # tr[1].handed /\ ~Forwards)
          => /\ setRemote.pc \in {"cands", "gathered"}
             /\ \/ /\ setRemote'.pc = "gathered"
                   /\ tr'[1].handed = tr[1].handed \o IceSection(setRemote.call.desc).cands
                \/ /\ setRemote'.pc = "marker"
                   /\ IceSection(setRemote.call.desc).complete
                   /\ IsSubSeq(IceSection(setRemote.call.desc).cands, tr[1].handed)
                   /\ tr'[1].handed = Append(tr[1].handed, NullCandidate)
     /\ (ret'.op = "setRemoteDescription" /\ ret'.res = "ok"
           /\ AppSections(ret'.arg.media) # {} /\ ~sctp'.bundled)
          => IsSubSeq(Dispatched(ret'.arg), tr'[1].handed)
    ]_vars
\* The ICE transport received the two candidates of an offer in the offer's
\* order, then its end-of-candidates marker, then two trickled candidates in
\* the order of the addIceCandidate calls.
C36_Witness ==
  /\ calls = 3 /\ setRemote.pc = "idle"
  /\ currentRemoteDescription = NoDesc
  /\ Holds(pendingRemoteDescription, OfferWith(<<FirstCandidate, SecondCandidate>>, TRUE))
  /\ tr[1].handed = <<FirstCandidate, SecondCandidate, NullCandidate,
                      SecondCandidate, FirstCandidate>>

\* A step of setRemoteDescription that removes transport x from a tracking
\* set.
Discards(x) ==
  \/ x \in dtlsTransports /\ x \notin dtlsTransports'
  \/ x \in iceTransports /\ x \notin iceTransports'
\* setRemoteDescription is in the BUNDLE collapse: it awaits the stop of a
\* discarded transport.
Collapsing == setRemote.pc \in {"stopDtls", "stopIce"}

\* C37: a transport leaves the tracking sets only in the step in which the
\* BUNDLE collapse resumes from the stop of its ICE transport, the stop of its
\* DTLS transport having returned before; the DTLS transport and the ICE
\* transport leave their sets in that same step, both closed; and from the
\* start of the collapse to the return of setRemoteDescription the discarded
\* ICE transport receives no candidate of the description.
C37_CollapseOrder ==
  [][\A x \in Transports :
       /\ Discards(x)
            => /\ setRemote.pc = "stopIce"
               /\ tr[x].dtls = "closed"
               /\ tr'[x].dtls = "closed" /\ tr'[x].ice = "closed"
               /\ x \notin dtlsTransports' /\ x \notin iceTransports'
       /\ (setRemote.pc = "stopDtls" /\ setRemote'.pc = "stopIce")
            => tr'[x].dtls = "closed" /\ x \in dtlsTransports' /\ x \in iceTransports'
       /\ (Collapsing \/ x \notin iceTransports)
            => (tr'[x].handed # tr[x].handed => Forwards)
       /\ Collapsing => setRemote'.pc \in {"stopDtls", "stopIce", "idle"}
    ]_vars
\* setRemoteDescription has returned from a BUNDLE collapse: the transport
\* is stopped and discarded and has received none of the offer's candidates.
C37_Witness ==
  /\ ret.op = "setRemoteDescription" /\ ret.res = "ok"
  /\ ret.arg = BundledOfferWith(<<FirstCandidate, SecondCandidate>>, TRUE)
  /\ sctp.bundled /\ iceTransports = {} /\ dtlsTransports = {}
  /\ tr[1].dtls = "closed" /\ tr[1].ice = "closed"
  /\ tr[1].handed = <<>>

\* C38: whenever signalingState is have-local-offer the active local
\* description is set, and whenever it is have-remote-offer the active remote
\* description is set.
C38_OfferPresent ==
  /\ signalingState = "have-local-offer" => LocalDescription # NoDesc
  /\ signalingState = "have-remote-offer" => RemoteDescription # NoDesc


\* C39: once close() has marked the connection closed, no __connect task
\* calls start on the ICE, the DTLS or the SCTP transport.
C39_NoStartAfterClose ==
  [][isClosed # "none"
       => ~(IceStartCalled \/ DtlsStartCalled \/ SctpStartCalled)]_vars


====
